---- MODULE Spec2Model ----
(***************************************************************************)
(* Model of the listing-ingestion pipeline of mapea-back:                  *)
(*   app/scraper.py            ScraperFactory, get_buildings               *)
(*   app/sources/inmoup.py     InmoupScraper (httpx tactic, browser        *)
(*                             tactic, image-enhancement pass)             *)
(*   app/sources/mendozaprop.py MendozaPropScraper (paginated walker,      *)
(*                             concurrent enrichment, geocode cache)       *)
(* and of the two request-level gates in front of it:                      *)
(*   app/main.py               RateLimitMiddleware, GET /auth/csrf-token   *)
(*   app/auth/security.py      CSRF token store and verification           *)
(*                                                                         *)
(* Python strings that the code transforms character by character          *)
(* (str.lower) are sequences of one-character strings; None is a separate  *)
(* flag of the value.  HTTP statuses are the integers the code raises.     *)
(***************************************************************************)
EXTENDS Integers, Sequences, FiniteSets, TLC

VARIABLES
    scrapers,        \* ScraperFactory._scrapers: registered key -> scraper class
    nregs,           \* number of register_scraper calls made so far
    lookup,          \* last ScraperFactory.get_scraper call: its argument and its result
    pc,              \* position of the one get_buildings invocation
    request,         \* the request of the invocation (its source)
    scraper,         \* class of the client the factory returned
    outcome,         \* what the invocation ended in: a list or an HTTPException
    inmoup,          \* InmoupScraper.get_buildings: locals and call counters
    mp,              \* MendozaPropScraper.get_buildings: locals of the walker
    page_log,        \* every page request issued, in order
    tasks,           \* enrichment tasks handed to asyncio.gather
    geocode_cache,   \* MendozaPropScraper.geocode_cache
    geocode_log,     \* every _geocode_address call, in order
    last_reg,        \* last ScraperFactory.register_scraper call and the registry before it
    ex,              \* one extraction: the raw input and the records built from it
    instances,       \* the client objects constructed so far, by identity
    calls,           \* entry-point invocations: the client each holds, what it cached
    query,           \* MendozaPropScraper.get_buildings: the filter built from the request
    request_counts,  \* RateLimitMiddleware.request_counts: client IP -> recorded timestamps
    time_time,       \* the value time.time() returns, in seconds
    dispatch_log,    \* every RateLimitMiddleware.dispatch call: its IP, its time, whether forwarded
    csrf_tokens,     \* auth.security.csrf_tokens: token -> what is stored for it
    utcnow,          \* the value datetime.utcnow() returns, in hours
    csrf_env,        \* the CSRF settings auth.security read from the environment
    csrf_issued,     \* every token GET /auth/csrf-token returned: when, and until when
    csrf_login       \* the last POST /token: its token (and whether it had been issued), its client, how the CSRF step ended

vars == <<scrapers, nregs, lookup, pc, request, scraper, outcome, inmoup, mp,
          page_log, tasks, geocode_cache, geocode_log, last_reg, ex, instances,
          calls, query, request_counts, time_time, dispatch_log, csrf_tokens,
          utcnow, csrf_env, csrf_issued, csrf_login>>

factoryVars == <<scrapers, nregs, lookup, last_reg>>
pipeVars == <<pc, request, scraper, outcome, inmoup, mp, page_log, tasks,
              geocode_cache, geocode_log>>
extractVars == <<ex>>
instanceVars == <<instances, calls>>
queryVars == <<query>>
rateVars == <<request_counts, time_time, dispatch_log>>
csrfVars == <<csrf_tokens, utcnow, csrf_env, csrf_issued, csrf_login>>
webVars == <<rateVars, csrfVars>>

----------------------------------------------------------------------------
(* Bounds of the model *)

\* register_scraper calls in one behaviour
MaxRegs == 1
\* items of a page that is shorter than the page size
MaxShort == 2
\* records of an Inmoup tactic's result
MaxRecs == 2
\* page requests of one invocation that fail other than by a timeout
MaxRetries == 1
\* entry-point invocations in one behaviour
MaxCalls == 3
\* items of a page whose records are extracted in a loop
MaxItems == 3
\* images of the longest gallery of an item
MaxImages == 12

----------------------------------------------------------------------------
(* Python values *)

\* a str value
Str(chars) == [none |-> FALSE, s |-> chars]
\* the None value where a str is expected
NoneStr == [none |-> TRUE, s |-> <<>>]

\* str.lower() of one character (ASCII letters of the identifiers in use)
UpperToLower ==
    [c \in {"A", "C", "D", "E", "I", "M", "N", "O", "P", "R", "S", "T", "U", "Z"} |->
        CASE c = "A" -> "a" [] c = "C" -> "c" [] c = "D" -> "d" [] c = "E" -> "e"
          [] c = "I" -> "i" [] c = "M" -> "m" [] c = "N" -> "n"
          [] c = "O" -> "o" [] c = "P" -> "p" [] c = "R" -> "r"
          [] c = "S" -> "s" [] c = "T" -> "t"
          [] c = "U" -> "u" [] c = "Z" -> "z"]

LowerChar(c) == IF c \in DOMAIN UpperToLower THEN UpperToLower[c] ELSE c

UpperChar(c) ==
    IF \E u \in DOMAIN UpperToLower : UpperToLower[u] = c
    THEN CHOOSE u \in DOMAIN UpperToLower : UpperToLower[u] = c
    ELSE c

\* a defect of lower(): leaves the first character as it is
LowerButFirst(chars) ==
    [i \in 1..Len(chars) |-> IF i = 1 THEN chars[i] ELSE LowerChar(chars[i])]

\* str.lower()
Lower(chars) == [i \in 1..Len(chars) |-> LowerChar(chars[i])]

\* `source.lower() if source else ""`: None and "" are falsy
source_lower(source) ==
    IF source.none \/ source.s = <<>> THEN <<>> ELSE Lower(source.s)

----------------------------------------------------------------------------
(* ScraperFactory *)

K_inmoup == <<"i", "n", "m", "o", "u", "p">>
K_mendozaprop == <<"m", "e", "n", "d", "o", "z", "a", "p", "r", "o", "p">>
K_zonaprop == <<"z", "o", "n", "a", "p", "r", "o", "p">>

ScraperClasses == {"InmoupScraper", "MendozaPropScraper"}

\* the class attribute _scrapers as the module defines it
InitialScrapers ==
    [k \in {K_inmoup, K_mendozaprop} |->
        IF k = K_inmoup THEN "InmoupScraper" ELSE "MendozaPropScraper"]

\* every spelling of chars that differs from it in letter case only
CaseVariants(chars) ==
    {[i \in 1..Len(chars) |-> IF i \in m THEN UpperChar(chars[i]) ELSE chars[i]] :
        m \in SUBSET (1..Len(chars))}

\* chars in capital letters, and with a capital first letter
Upper(chars) == [i \in 1..Len(chars) |-> UpperChar(chars[i])]
Capitalized(chars) ==
    [i \in 1..Len(chars) |-> IF i = 1 THEN UpperChar(chars[i]) ELSE chars[i]]

\* source arguments tried on the factory: every spelling of "inmoup", three
\* spellings of the longer identifiers, and strings that spell no identifier
LookupSources ==
    {Str(t) : t \in CaseVariants(K_inmoup)}
    \cup {Str(t) : t \in {K_mendozaprop, Upper(K_mendozaprop), Capitalized(K_mendozaprop),
                          <<"M", "e", "n", "d", "o", "z", "a", "P", "r", "o", "p">>,
                          K_zonaprop, Upper(K_zonaprop), Capitalized(K_zonaprop)}}
    \cup {NoneStr, Str(<<>>), Str(<<"i", "n", "m", "o", "u">>),
          Str(<<" ", "i", "n", "m", "o", "u", "p">>),
          Str(K_inmoup \o <<"2">>)}

\* names given to register_scraper
RegisterNames ==
    {<<"Z", "o", "n", "a", "P", "r", "o", "p">>, K_zonaprop,
     <<"I", "N", "M", "O", "U", "P">>}

\* get_scraper: the class instantiated, or the HTTPException(400) raised
get_scraper(registry, source) ==
    LET source_l == source_lower(source) IN
    IF source_l \in DOMAIN registry
    THEN [ok |-> TRUE, cls |-> registry[source_l], status |-> 200]
    ELSE [ok |-> FALSE, cls |-> "none", status |-> 400]

\* a defect: the name is stored as it was given
RegisterVerbatim(registry, source_name, scraper_class) ==
    [k \in DOMAIN registry \cup {source_name} |->
        IF k = source_name THEN scraper_class ELSE registry[k]]

\* register_scraper: cls._scrapers[source_name.lower()] = scraper_class
register_scraper(registry, source_name, scraper_class) ==
    [k \in DOMAIN registry \cup {Lower(source_name)} |->
        IF k = Lower(source_name) THEN scraper_class ELSE registry[k]]

NoLookup == [source |-> NoneStr, called |-> FALSE, ok |-> FALSE,
             cls |-> "none", status |-> 0, registry |-> InitialScrapers]

\* no register_scraper call was made yet
NoReg == [made |-> FALSE, name |-> <<>>, cls |-> "none", before |-> InitialScrapers]

RegisterScraper ==
    /\ nregs < MaxRegs
    /\ \E name \in RegisterNames, cls \in ScraperClasses :
          /\ scrapers' = register_scraper(scrapers, name, cls)
          /\ last_reg' = [made |-> TRUE, name |-> name, cls |-> cls,
                          before |-> scrapers]
    /\ nregs' = nregs + 1
    /\ UNCHANGED <<lookup, pipeVars, extractVars, instanceVars, queryVars, webVars>>

GetScraper ==
    /\ \E source \in LookupSources :
          LET r == get_scraper(scrapers, source) IN
          lookup' = [source |-> source, called |-> TRUE, ok |-> r.ok,
                     cls |-> r.cls, status |-> r.status, registry |-> scrapers]
    /\ UNCHANGED <<scrapers, nregs, last_reg, pipeVars, extractVars, instanceVars, queryVars, webVars>>

----------------------------------------------------------------------------
(* Exceptions and results of an invocation *)

HTTPException(status) == [exc |-> "HTTPException", status |-> status]
\* any exception that is not an HTTPException (httpx, aiohttp, playwright, TypeError)
OtherError(name) == [exc |-> name, status |-> 0]

Returned(records) == [kind |-> "list", status |-> 200, records |-> records, exc |-> "none"]
Raised(e) == [kind |-> "error", status |-> e.status, records |-> <<>>, exc |-> e.exc]
Pending == [kind |-> "none", status |-> 0, records |-> <<>>, exc |-> "none"]

----------------------------------------------------------------------------
(* InmoupScraper *)

\* A URL is the sequence of its pieces: the scheme, the host, a slash, the
\* directories, the file name.  Concatenation is \o, a prefix test looks at
\* the first piece and a substring test at consecutive pieces.
INMOUP_ORIGIN == <<"https://", "inmoup.com.ar">>
PH_DIR == "bundles/inmoup/images/v11.03/"
PH_FILE == "empty-photo-box.jpg"
PLACEHOLDER == INMOUP_ORIGIN \o <<"/", PH_DIR, PH_FILE>>
REAL_1 == INMOUP_ORIGIN \o <<"/", "fotos/", "1.jpg">>
REAL_2 == INMOUP_ORIGIN \o <<"/", "fotos/", "2.jpg">>

\* `"/bundles/inmoup/images/v11.03/empty-photo-box.jpg" in image`
IsPlaceholder(image) ==
    \E i \in 1..(Len(image) - 2) :
        image[i] = "/" /\ image[i + 1] = PH_DIR /\ image[i + 2] = PH_FILE

InmoupRecord(kid, image) ==
    [kid |-> kid, price |-> "100", image |-> image, additional_images |-> <<>>,
     source |-> "inmoup"]

\* lists a tactic can produce from a fetched page: kid i is the i-th listing
InmoupLists ==
    UNION {{[i \in 1..n |-> InmoupRecord(i, img[i])] :
               img \in [1..n -> {PLACEHOLDER, REAL_1, <<>>}]} : n \in 0..MaxRecs}

\* how _get_buildings_httpx fails, with the status of the answer it received
\* (0 without an answer): HTTPException(503) on every answer that is not 200
\* (line 254), a 2xx answer other than 200 included; an httpx exception on a
\* network failure or a timeout; RecursionError out of json.loads on a deeply
\* nested window.rdb_properties array (lines 281-284 catch JSONDecodeError only)
HttpxFailures ==
    {[exc |-> HTTPException(503), answer |-> 500],
     [exc |-> HTTPException(503), answer |-> 204],
     [exc |-> OtherError("httpx.ConnectError"), answer |-> 0],
     [exc |-> OtherError("httpx.TimeoutException"), answer |-> 0],
     [exc |-> OtherError("RecursionError"), answer |-> 200]}

\* what _get_buildings_httpx raises
HttpxErrors == {f.exc : f \in HttpxFailures}

\* missing_images: all(...) over the records (True for an empty list)
missing_images(buildings) ==
    \A i \in 1..Len(buildings) : IsPlaceholder(buildings[i].image)

\* steps of _enhance_with_playwright_images that can raise
EnhanceFailPoints ==
    {"launch", "new_page", "goto", "goto_close", "query", "close", "exit"}

\* image_map entries: a main image, or a dict with main and additional images
ImageMapEntries ==
    {[dict |-> FALSE, main |-> REAL_1, additional |-> <<>>],
     [dict |-> TRUE, main |-> REAL_2, additional |-> <<REAL_1>>],
     [dict |-> TRUE, main |-> <<>>, additional |-> <<REAL_2>>]}

\* image maps harvested from the page: some of the listed kids, and maybe one
\* that is not in the list
ImageMaps ==
    UNION {[S -> ImageMapEntries] : S \in SUBSET (1..(MaxRecs + 1))}

\* a defect: the records without harvested images are left out of the result
SpliceDropsUnmatched(buildings, image_map) ==
    LET matched == SelectSeq(buildings, LAMBDA b : b.kid \in DOMAIN image_map)
    IN  [i \in 1..Len(matched) |->
            IF image_map[matched[i].kid].dict
            THEN [matched[i] EXCEPT !.image = image_map[matched[i].kid].main,
                                    !.additional_images =
                                        image_map[matched[i].kid].additional]
            ELSE [matched[i] EXCEPT !.image = image_map[matched[i].kid].main]]

\* lines 196-206: splice the harvested images into the records, by kid
SpliceImages(buildings, image_map) ==
    [i \in 1..Len(buildings) |->
        LET b == buildings[i] IN
        IF b.kid \in DOMAIN image_map
        THEN IF image_map[b.kid].dict
             THEN [b EXCEPT !.image = image_map[b.kid].main,
                            !.additional_images = image_map[b.kid].additional]
             ELSE [b EXCEPT !.image = image_map[b.kid].main]
        ELSE b]

\* a defect: the browser is closed after the splice, so a failing close
\* returns records that were already changed
EnhanceSpliceBeforeClose(buildings, failAt, image_map) ==
    IF Len(buildings) = 0 THEN <<>>
    ELSE IF failAt \in {"launch", "new_page", "goto", "goto_close", "query"}
         THEN buildings
         ELSE SpliceImages(buildings, image_map)

\* _enhance_with_playwright_images: the list it returns (it never raises).
\* A failure up to browser.close() (line 194) leaves the records as they were;
\* the splice mutates the records in place, so a failure when the
\* async_playwright block exits returns the spliced records.
enhance_with_playwright_images(buildings, failAt, image_map) ==
    IF Len(buildings) = 0 THEN <<>>
    ELSE IF failAt \in {"launch", "new_page", "goto", "goto_close", "query", "close"}
         THEN buildings
         ELSE SpliceImages(buildings, image_map)

\* outcomes of the browser tactic's steps
PlaywrightRuns ==
    {[step |-> s, records |-> <<>>] : s \in {"launch_failed", "goto_failed", "query_failed"}}
    \cup {[step |-> "ok", records |-> r] : r \in InmoupLists}
    \cup {[step |-> "close_failed", records |-> r] : r \in InmoupLists}

\* _get_buildings_playwright: a failed page.goto raises HTTPException(503)
\* inside the try block (line 426); `except Exception` (line 506) catches it
\* with every other failure and raises HTTPException(500)
get_buildings_playwright(run) ==
    IF run.step = "ok" THEN Returned(run.records)
    ELSE Raised(HTTPException(500))

\* a defect: leaving the async_playwright block does not end the browsers
StopKeepsBrowsers(running) == running

\* leaving the `async with async_playwright()` block stops the Playwright
\* driver, which ends the browsers launched through it
playwright_stop(running) == 0

\* browsers running after the events of one browser session: "launch"
\* (chromium.launch returned), "close" (browser.close() returned), "stop"
\* (the async_playwright block was left)
RECURSIVE BrowsersRunning(_, _)
BrowsersRunning(events, running) ==
    IF Len(events) = 0 THEN running
    ELSE BrowsersRunning(Tail(events),
            CASE Head(events) = "launch" -> running + 1
              [] Head(events) = "close" -> IF running > 0 THEN running - 1 ELSE 0
              [] OTHER -> playwright_stop(running))

\* _enhance_with_playwright_images, lines 124-213: the browser events up to
\* the return, by the step that raised.  browser.close() is called after a
\* failed navigation (line 142) and after the harvest (line 194) only
EnhanceBrowserEvents(failAt) ==
    CASE failAt = "launch" -> <<"stop">>
      [] failAt \in {"new_page", "goto_close", "query", "close"} -> <<"launch", "stop">>
      [] failAt = "exit" -> <<"launch", "close">>
      [] OTHER -> <<"launch", "close", "stop">>

\* _get_buildings_playwright, lines 374-511: the browser events up to the
\* return or raise.  browser.close() is called at line 504 only; a failed
\* navigation raises at line 426 without it
PlaywrightBrowserEvents(step) ==
    CASE step = "launch_failed" -> <<"stop">>
      [] step \in {"goto_failed", "query_failed", "close_failed"} -> <<"launch", "stop">>
      [] OTHER -> <<"launch", "close", "stop">>

\* the launches among the events
Launches(events) == Cardinality({i \in 1..Len(events) : events[i] = "launch"})

InitInmoup ==
    [httpx |-> "none", httpx_exc |-> OtherError("none"), httpx_answer |-> 0,
     buildings |-> <<>>,
     playwright_calls |-> 0, playwright_step |-> "none",
     enhance_calls |-> 0, enhance_fail |-> "none",
     browsers_launched |-> 0, browsers_running |-> 0]

\* a defect: one placeholder image is enough to start the enhancement pass
InmoupHttpxEnhancesOnAnyPlaceholder ==
    /\ pc = "inmoup_httpx"
    /\ \/ \E f \in HttpxFailures :
             /\ inmoup' = [inmoup EXCEPT !.httpx = "raised", !.httpx_exc = f.exc,
                                         !.httpx_answer = f.answer]
             /\ pc' = "inmoup_playwright"
             /\ UNCHANGED outcome
       \/ \E buildings \in InmoupLists :
             /\ inmoup' = [inmoup EXCEPT !.httpx = "returned", !.buildings = buildings,
                                         !.httpx_answer = 200]
             /\ IF \E i \in 1..Len(buildings) : IsPlaceholder(buildings[i].image)
                THEN pc' = "inmoup_enhance" /\ UNCHANGED outcome
                ELSE pc' = "done" /\ outcome' = Returned(buildings)
    /\ UNCHANGED <<factoryVars, extractVars, instanceVars, queryVars, webVars, request, scraper, mp, page_log, tasks,
                   geocode_cache, geocode_log>>

\* a defect: an empty list of the httpx tactic starts the browser tactic too
InmoupHttpxBrowserOnEmpty ==
    /\ pc = "inmoup_httpx"
    /\ \/ \E f \in HttpxFailures :
             /\ inmoup' = [inmoup EXCEPT !.httpx = "raised", !.httpx_exc = f.exc,
                                         !.httpx_answer = f.answer]
             /\ pc' = "inmoup_playwright"
             /\ UNCHANGED outcome
       \/ \E buildings \in InmoupLists :
             /\ inmoup' = [inmoup EXCEPT !.httpx = "returned", !.buildings = buildings,
                                         !.httpx_answer = 200]
             /\ IF Len(buildings) = 0
                THEN pc' = "inmoup_playwright" /\ UNCHANGED outcome
                ELSE IF missing_images(buildings)
                     THEN pc' = "inmoup_enhance" /\ UNCHANGED outcome
                     ELSE pc' = "done" /\ outcome' = Returned(buildings)
    /\ UNCHANGED <<factoryVars, extractVars, instanceVars, queryVars, webVars, request, scraper, mp, page_log, tasks,
                   geocode_cache, geocode_log>>

\* a defect: an error of the httpx tactic is raised without trying the browser
InmoupHttpxNoFallback ==
    /\ pc = "inmoup_httpx"
    /\ \/ \E f \in HttpxFailures :
             /\ inmoup' = [inmoup EXCEPT !.httpx = "raised", !.httpx_exc = f.exc,
                                         !.httpx_answer = f.answer]
             /\ pc' = "done"
             /\ outcome' = Raised(HTTPException(500))
       \/ \E buildings \in InmoupLists :
             /\ inmoup' = [inmoup EXCEPT !.httpx = "returned", !.buildings = buildings,
                                         !.httpx_answer = 200]
             /\ IF missing_images(buildings) /\ Len(buildings) > 0
                THEN pc' = "inmoup_enhance" /\ UNCHANGED outcome
                ELSE pc' = "done" /\ outcome' = Returned(buildings)
    /\ UNCHANGED <<factoryVars, extractVars, instanceVars, queryVars, webVars, request, scraper, mp, page_log, tasks,
                   geocode_cache, geocode_log>>

\* get_buildings, line 53: the httpx tactic, then lines 56-71 or line 73
InmoupHttpx ==
    /\ pc = "inmoup_httpx"
    /\ \/ \E f \in HttpxFailures :
             /\ inmoup' = [inmoup EXCEPT !.httpx = "raised", !.httpx_exc = f.exc,
                                         !.httpx_answer = f.answer]
             /\ pc' = "inmoup_playwright"
             /\ UNCHANGED outcome
       \/ \E buildings \in InmoupLists :
             /\ inmoup' = [inmoup EXCEPT !.httpx = "returned", !.buildings = buildings,
                                         !.httpx_answer = 200]
             /\ IF missing_images(buildings) /\ Len(buildings) > 0
                THEN pc' = "inmoup_enhance" /\ UNCHANGED outcome
                ELSE pc' = "done" /\ outcome' = Returned(buildings)
    /\ UNCHANGED <<factoryVars, extractVars, instanceVars, queryVars, webVars, request, scraper, mp, page_log, tasks,
                   geocode_cache, geocode_log>>

\* a defect: an exception of the enhancement pass reaches the handler that
\* starts the browser tactic
InmoupEnhanceFallsBack ==
    /\ pc = "inmoup_enhance"
    /\ \E failAt \in EnhanceFailPoints \cup {"none"}, image_map \in ImageMaps :
          /\ inmoup' = [inmoup EXCEPT
                !.enhance_calls = @ + 1, !.enhance_fail = failAt,
                !.browsers_launched = @ + Launches(EnhanceBrowserEvents(failAt)),
                !.browsers_running = BrowsersRunning(EnhanceBrowserEvents(failAt), @)]
          /\ IF failAt = "none"
             THEN /\ outcome' = Returned(enhance_with_playwright_images(
                                            inmoup.buildings, failAt, image_map))
                  /\ pc' = "done"
             ELSE pc' = "inmoup_playwright" /\ UNCHANGED outcome
    /\ UNCHANGED <<factoryVars, extractVars, instanceVars, queryVars, webVars, request, scraper, mp, page_log, tasks,
                   geocode_cache, geocode_log>>

\* get_buildings, lines 63-69: the enhancement pass; an exception out of it
\* would be caught and the httpx records returned
InmoupEnhance ==
    /\ pc = "inmoup_enhance"
    /\ \E failAt \in EnhanceFailPoints \cup {"none"}, image_map \in ImageMaps :
          /\ inmoup' = [inmoup EXCEPT
                !.enhance_calls = @ + 1, !.enhance_fail = failAt,
                !.browsers_launched = @ + Launches(EnhanceBrowserEvents(failAt)),
                !.browsers_running = BrowsersRunning(EnhanceBrowserEvents(failAt), @)]
          /\ outcome' = Returned(enhance_with_playwright_images(
                                    inmoup.buildings, failAt, image_map))
    /\ pc' = "done"
    /\ UNCHANGED <<factoryVars, extractVars, instanceVars, queryVars, webVars, request, scraper, mp, page_log, tasks,
                   geocode_cache, geocode_log>>

\* get_buildings, lines 73-83: the browser tactic after the httpx tactic raised;
\* whatever it raises becomes HTTPException(500)
InmoupPlaywright ==
    /\ pc = "inmoup_playwright"
    /\ \E run \in PlaywrightRuns :
          LET r == get_buildings_playwright(run) IN
          /\ inmoup' = [inmoup EXCEPT
                !.playwright_calls = @ + 1, !.playwright_step = run.step,
                !.browsers_launched = @ + Launches(PlaywrightBrowserEvents(run.step)),
                !.browsers_running = BrowsersRunning(PlaywrightBrowserEvents(run.step), @)]
          /\ outcome' = IF r.kind = "list" THEN r ELSE Raised(HTTPException(500))
    /\ pc' = "done"
    /\ UNCHANGED <<factoryVars, extractVars, instanceVars, queryVars, webVars, request, scraper, mp, page_log, tasks,
                   geocode_cache, geocode_log>>

----------------------------------------------------------------------------
(* MendozaPropScraper: the paginated walker *)

\* get_buildings, line 37
limit == 50
\* get_buildings, line 39
max_pages == 5

\* raw items of the API, without their id
PlainItem == [address |-> "Belgrano 10", latitude |-> "-32.88", longitude |-> "-68.84",
              parking |-> "1"]
\* no coordinates: the address is geocoded
NoCoordItem == [address |-> "San Martin 100", latitude |-> "", longitude |-> "",
                parking |-> "0"]
\* "parking": null makes `prop.get("parking", 0) > 0` raise TypeError
BadItem == [address |-> "", latitude |-> "-32.90", longitude |-> "-68.80",
            parking |-> "null"]

ShortKinds == {PlainItem, NoCoordItem, BadItem}

\* bodies of a 200 answer: a list shorter than the page size (empty included),
\* or a full page, whose last item is one that cannot be enriched
PageBodies ==
    UNION {[1..n -> ShortKinds] : n \in 0..MaxShort}
    \cup {[i \in 1..limit |-> IF i = limit THEN BadItem ELSE PlainItem]}

\* answers to one page request
PageResponses ==
    {[kind |-> "ok", body |-> b] : b \in PageBodies}
    \cup {[kind |-> k, body |-> <<>>] : k \in {"status", "timeout", "error"}}

\* the items of a body as the API serves them at an offset: ids follow positions
Items(body, offset) ==
    [i \in 1..Len(body) |->
        [id |-> offset + i, address |-> body[i].address,
         latitude |-> body[i].latitude, longitude |-> body[i].longitude,
         parking |-> body[i].parking]]

\* in_flight holds the page requests that were issued and not yet answered
InitMp ==
    [offset |-> 0, more_properties |-> TRUE, page_count |-> 0,
     properties_data |-> <<>>, failed_page |-> 0, in_flight |-> <<>>]

\* a request as it is sent: api_url of line 110 carries limit and offset
Request(m, verify) == [page |-> m.page_count, offset |-> m.offset, verify |-> verify]

\* one entry of page_log
PageRequest(m, verify, resp) ==
    [page |-> m.page_count, offset |-> m.offset, verify |-> verify,
     result |-> resp.kind, count |-> Len(resp.body)]

\* a defect: the offset advances by the page size
ProcessPageAdvancesByLimit(m, properties) ==
    IF Len(properties) = 0
    THEN [mp |-> [m EXCEPT !.more_properties = FALSE], exit |-> "break"]
    ELSE [mp |-> [m EXCEPT !.properties_data = @ \o properties,
                           !.offset = @ + limit,
                           !.more_properties =
                               IF Len(properties) < limit THEN FALSE ELSE @],
          exit |-> "next"]

\* a defect: a short page does not end the walk
ProcessPageIgnoresShort(m, properties) ==
    IF Len(properties) = 0
    THEN [mp |-> [m EXCEPT !.more_properties = FALSE], exit |-> "break"]
    ELSE [mp |-> [m EXCEPT !.properties_data = @ \o properties,
                           !.offset = @ + Len(properties)],
          exit |-> "next"]

\* lines 153-170: the body of a received page
ProcessPage(m, properties) ==
    IF Len(properties) = 0
    THEN [mp |-> [m EXCEPT !.more_properties = FALSE], exit |-> "break"]
    ELSE [mp |-> [m EXCEPT !.properties_data = @ \o properties,
                           !.offset = @ + Len(properties),
                           !.more_properties =
                               IF Len(properties) < limit THEN FALSE ELSE @],
          exit |-> "next"]

\* a defect: the page cap is tested with <=
LoopGuardOffByOne(m) == m.more_properties /\ m.page_count <= max_pages

\* line 107: while more_properties and page_count < max_pages
LoopGuard(m) == m.more_properties /\ m.page_count < max_pages

\* a defect: a timeout is fatal
FirstAttemptTimeoutRaises(m, resp) ==
    CASE resp.kind = "ok" -> ProcessPage(m, Items(resp.body, m.offset))
      [] resp.kind = "timeout" ->
            [mp |-> [m EXCEPT !.failed_page = m.page_count], exit |-> "raise"]
      [] OTHER -> [mp |-> m, exit |-> "retry"]

\* a defect: a timeout goes to the retry like every other failure
FirstAttemptRetriesTimeout(m, resp) ==
    IF resp.kind = "ok" THEN ProcessPage(m, Items(resp.body, m.offset))
    ELSE [mp |-> m, exit |-> "retry"]

\* lines 114-129: the request with certificate verification.  A timeout breaks
\* out of the loop; a non-200 status (HTTPException raised at line 118) and any
\* other exception go to the retry
FirstAttempt(m, resp) ==
    CASE resp.kind = "ok" -> ProcessPage(m, Items(resp.body, m.offset))
      [] resp.kind = "timeout" -> [mp |-> m, exit |-> "break"]
      [] OTHER -> [mp |-> m, exit |-> "retry"]

\* a defect: the items of a successful retry are not appended
RetryAttemptDropsItems(m, resp) ==
    IF resp.kind = "ok"
    THEN [mp |-> m, exit |-> IF Len(resp.body) = 0 THEN "break" ELSE "next"]
    ELSE [mp |-> [m EXCEPT !.failed_page = m.page_count], exit |-> "raise"]

\* a defect: a failed retry ends the walk like a timeout does
RetryAttemptBreaks(m, resp) ==
    IF resp.kind = "ok"
    THEN ProcessPage(m, Items(resp.body, m.offset))
    ELSE [mp |-> [m EXCEPT !.failed_page = m.page_count], exit |-> "break"]

\* lines 131-151: the retry without certificate verification.  Every failure
\* of it (a timeout included) raises HTTPException(503)
RetryAttempt(m, resp) ==
    IF resp.kind = "ok"
    THEN ProcessPage(m, Items(resp.body, m.offset))
    ELSE [mp |-> [m EXCEPT !.failed_page = m.page_count], exit |-> "raise"]

----------------------------------------------------------------------------
(* MendozaPropScraper: enrichment *)

\* the item reaches the geocoding branch (line 243)
ConsultsCache(item) ==
    item.address # "" /\ (item.latitude = "" \/ item.longitude = "")

\* results of _geocode_address for an address: the pair found, ("", "") when
\* the lookup fails, times out, is not answered 200 or finds nothing, and a
\* pair without "lon" when the first result has no such key (line 403)
GeocodeResults(address) == {<<"-32.89", "-68.83">>, <<"", "">>, <<"-32.89", "">>}

\* lines 334-353: the record, or the exception raised while building it
BuildRecord(item, latitude, longitude) ==
    IF item.parking = "null"
    THEN [ok |-> FALSE, exc |-> "TypeError", id |-> item.id]
    ELSE [ok |-> TRUE, id |-> item.id, direccion |-> item.address,
          latitude |-> latitude, longitude |-> longitude,
          hasgeolocation |-> (latitude # "" /\ longitude # ""),
          garage |-> (item.parking = "1"), source |-> "mendozaprop"]

NoResult == [ok |-> FALSE, exc |-> "pending", id |-> 0]

\* a defect: the results are taken as the tasks complete (as_completed
\* instead of gather): the tasks that were suspended come last, in the order
\* in which they resumed
CollectAsCompleted(results) ==
    SelectSeq(results, LAMBDA r : r.ok /\ \A k \in 1..Len(tasks.resumed) :
                                              tasks.resumed[k] # r.id)
    \o SelectSeq([k \in 1..Len(tasks.resumed) |-> results[tasks.resumed[k]]],
                 LAMBDA r : r.ok)

\* a defect: gather without return_exceptions hands over nothing after the
\* first task that raised
CollectUntilFirstError(results) ==
    LET bad == {i \in 1..Len(results) : ~results[i].ok}
        upto == IF bad = {} THEN Len(results)
                ELSE (CHOOSE i \in bad : \A j \in bad : i <= j) - 1
    IN  SubSeq(results, 1, upto)

\* lines 185-188: the results of gather that are dicts, in gather's order
Collect(results) == SelectSeq(results, LAMBDA r : r.ok)

\* resumed lists the tasks that were suspended in a lookup, in the order in
\* which their lookups returned
NoTasks == [n |-> 0, next |-> 1, state |-> <<>>, result |-> <<>>, resumed |-> <<>>]

\* lines 177-182: one task per raw item, none started yet
CreateTasks(data) ==
    [n |-> Len(data), next |-> 1,
     state |-> [i \in 1..Len(data) |-> "new"],
     result |-> [i \in 1..Len(data) |-> NoResult],
     resumed |-> <<>>]

\* first task from index i on whose item consults the cache, or n + 1
FirstConsulting(data, i) ==
    LET S == {k \in i..Len(data) : ConsultsCache(data[k])} IN
    IF S = {} THEN Len(data) + 1 ELSE CHOOSE k \in S : \A l \in S : k <= l

\* dict update: cache[address] = pair
CachePut(cache, address, pair) ==
    [a \in DOMAIN cache \cup {address} |-> IF a = address THEN pair ELSE cache[a]]

EmptyCache == [a \in {} |-> <<"", "">>]

\* lines 172-182 after the loop: the tasks are created and gathered
ToGather(m) ==
    /\ mp' = m
    /\ tasks' = CreateTasks(m.properties_data)
    /\ pc' = "mp_tasks"
    /\ UNCHANGED outcome

\* where get_buildings goes after a page attempt
AfterAttempt(step) ==
    CASE step.exit = "retry" ->
            /\ mp' = step.mp
            /\ pc' = "mp_retry"
            /\ UNCHANGED <<tasks, outcome>>
      [] step.exit = "raise" ->
            \* HTTPException(503) of line 148 is caught by `except Exception`
            \* (line 193), which raises HTTPException(500)
            /\ mp' = step.mp
            /\ pc' = "done"
            /\ outcome' = Raised(HTTPException(500))
            /\ UNCHANGED tasks
      [] step.exit = "next" /\ LoopGuard(step.mp) ->
            /\ mp' = step.mp
            /\ pc' = "mp_loop"
            /\ UNCHANGED <<tasks, outcome>>
      [] OTHER -> ToGather(step.mp)

\* retried page requests so far
Retries(log) == Cardinality({i \in 1..Len(log) : ~log[i].verify})

\* a defect: the next page is requested while a request is in flight
MpSendPagePipelined ==
    /\ pc = "mp_loop"
    /\ Len(mp.in_flight) < 2
    /\ LoopGuard(mp)
    /\ \E m \in {[mp EXCEPT !.page_count = @ + 1]} :
          mp' = [m EXCEPT !.in_flight = Append(@, Request(m, TRUE))]
    /\ UNCHANGED <<factoryVars, extractVars, instanceVars, queryVars, webVars, pc, request, scraper, outcome,
                   inmoup, page_log, tasks, geocode_cache, geocode_log>>

\* lines 107-115: the loop condition holds, the page is counted and its
\* request is sent; get_buildings is suspended in session.get
MpSendPage ==
    /\ pc = "mp_loop"
    /\ Len(mp.in_flight) = 0
    /\ LoopGuard(mp)
    /\ \E m \in {[mp EXCEPT !.page_count = @ + 1]} :
          mp' = [m EXCEPT !.in_flight = Append(@, Request(m, TRUE))]
    /\ UNCHANGED <<factoryVars, extractVars, instanceVars, queryVars, webVars, pc, request, scraper, outcome,
                   inmoup, page_log, tasks, geocode_cache, geocode_log>>

\* lines 115-170: the request of the iteration is answered
MpRequestPage ==
    /\ pc = "mp_loop"
    /\ Len(mp.in_flight) > 0
    /\ \E resp \in PageResponses :
       /\ resp.kind \in {"status", "error"} => Retries(page_log) < MaxRetries
       /\ \E step \in {FirstAttempt([mp EXCEPT !.in_flight = Tail(@)], resp)} :
             /\ page_log' = Append(page_log, PageRequest(mp, TRUE, resp))
             /\ AfterAttempt(step)
    /\ UNCHANGED <<factoryVars, extractVars, instanceVars, queryVars, webVars, request, scraper, inmoup, geocode_cache, geocode_log>>

\* lines 131-136: the same api_url is requested again, without certificate
\* verification
MpSendRetry ==
    /\ pc = "mp_retry"
    /\ Len(mp.in_flight) = 0
    /\ mp' = [mp EXCEPT !.in_flight = Append(@, Request(mp, FALSE))]
    /\ UNCHANGED <<factoryVars, extractVars, instanceVars, queryVars, webVars, pc, request, scraper, outcome,
                   inmoup, page_log, tasks, geocode_cache, geocode_log>>

\* lines 136-151, then 153-170: the retry is answered
MpRetryPage ==
    /\ pc = "mp_retry"
    /\ Len(mp.in_flight) > 0
    /\ \E resp \in PageResponses :
       \E step \in {RetryAttempt([mp EXCEPT !.in_flight = Tail(@)], resp)} :
          /\ page_log' = Append(page_log, PageRequest(mp, FALSE, resp))
          /\ AfterAttempt(step)
    /\ UNCHANGED <<factoryVars, extractVars, instanceVars, queryVars, webVars, request, scraper, inmoup, geocode_cache, geocode_log>>

\* a defect: a task goes to the geocoder without looking into the cache
MpStartTasksIgnoresCache ==
    /\ pc = "mp_tasks"
    /\ tasks.next <= tasks.n
    /\ \E j \in {FirstConsulting(mp.properties_data, tasks.next)} :
          /\ tasks' = [tasks EXCEPT
                !.next = IF j <= tasks.n THEN j + 1 ELSE j,
                !.state = [i \in 1..tasks.n |->
                             IF i >= tasks.next /\ i < j THEN "done"
                             ELSE IF i = j THEN "waiting" ELSE @[i]],
                !.result = [i \in 1..tasks.n |->
                             LET item == mp.properties_data[i] IN
                             IF i >= tasks.next /\ i < j
                             THEN BuildRecord(item, item.latitude, item.longitude)
                             ELSE @[i]]]
          /\ geocode_log' = IF j <= tasks.n
                            THEN Append(geocode_log, mp.properties_data[j].address)
                            ELSE geocode_log
    /\ UNCHANGED <<factoryVars, extractVars, instanceVars, queryVars, webVars, pc, request, scraper, outcome, inmoup, mp, page_log,
                   geocode_cache>>

\* The event loop starts the tasks in the order gather got them.  A task whose
\* item does not reach the geocoding branch has no suspension point and runs to
\* its end; the step takes such tasks together with the next task that
\* consults the cache, which ends at once on a hit and is suspended in
\* _geocode_address (line 250) on a miss.
MpStartTasks ==
    /\ pc = "mp_tasks"
    /\ tasks.next <= tasks.n
    /\ \E j \in {FirstConsulting(mp.properties_data, tasks.next)} :
       \E hit \in {j <= tasks.n /\ mp.properties_data[j].address \in DOMAIN geocode_cache} :
          /\ tasks' = [tasks EXCEPT
                !.next = IF j <= tasks.n THEN j + 1 ELSE j,
                !.state = [i \in 1..tasks.n |->
                             IF i >= tasks.next /\ (i < j \/ (i = j /\ hit)) THEN "done"
                             ELSE IF i = j THEN "waiting" ELSE @[i]],
                !.result = [i \in 1..tasks.n |->
                             LET item == mp.properties_data[i] IN
                             IF i >= tasks.next /\ i < j
                             THEN BuildRecord(item, item.latitude, item.longitude)
                             ELSE IF i = j /\ hit
                             THEN BuildRecord(item, geocode_cache[item.address][1],
                                              geocode_cache[item.address][2])
                             ELSE @[i]]]
          /\ geocode_log' = IF j <= tasks.n /\ ~hit
                            THEN Append(geocode_log, mp.properties_data[j].address)
                            ELSE geocode_log
    /\ UNCHANGED <<factoryVars, extractVars, instanceVars, queryVars, webVars, pc, request, scraper, outcome, inmoup, mp, page_log,
                   geocode_cache>>

\* a defect: the pair of a failed lookup is cached too
MpGeocodeReturnCachesFailure ==
    /\ pc = "mp_tasks"
    /\ \E i \in 1..tasks.n :
          /\ tasks.state[i] = "waiting"
          /\ LET item == mp.properties_data[i] IN
             \E pair \in GeocodeResults(item.address) :
                /\ geocode_cache' = CachePut(geocode_cache, item.address, pair)
                /\ tasks' = [tasks EXCEPT
                      !.state[i] = "done",
                      !.result[i] = BuildRecord(item, pair[1], pair[2]),
                      !.resumed = Append(@, i)]
    /\ UNCHANGED <<factoryVars, extractVars, instanceVars, queryVars, webVars, pc, request, scraper, outcome, inmoup, mp, page_log,
                   geocode_log>>

\* a defect: a lookup that found nothing removes the entry of its address
MpGeocodeReturnEvictsOnFailure ==
    /\ pc = "mp_tasks"
    /\ \E i \in 1..tasks.n :
          /\ tasks.state[i] = "waiting"
          /\ LET item == mp.properties_data[i] IN
             \E pair \in GeocodeResults(item.address) :
                /\ geocode_cache' = IF pair[1] # "" /\ pair[2] # ""
                                    THEN CachePut(geocode_cache, item.address, pair)
                                    ELSE [a \in DOMAIN geocode_cache \ {item.address} |->
                                             geocode_cache[a]]
                /\ tasks' = [tasks EXCEPT
                      !.state[i] = "done",
                      !.result[i] = BuildRecord(item, pair[1], pair[2]),
                      !.resumed = Append(@, i)]
    /\ UNCHANGED <<factoryVars, extractVars, instanceVars, queryVars, webVars, pc, request, scraper, outcome, inmoup, mp, page_log,
                   geocode_log>>

\* _geocode_address returns to a suspended task: lines 250-253, then the record
MpGeocodeReturn ==
    /\ pc = "mp_tasks"
    /\ \E i \in 1..tasks.n :
          /\ tasks.state[i] = "waiting"
          /\ LET item == mp.properties_data[i] IN
             \E pair \in GeocodeResults(item.address) :
                /\ geocode_cache' = IF pair[1] # "" /\ pair[2] # ""
                                    THEN CachePut(geocode_cache, item.address, pair)
                                    ELSE geocode_cache
                /\ tasks' = [tasks EXCEPT
                      !.state[i] = "done",
                      !.result[i] = BuildRecord(item, pair[1], pair[2]),
                      !.resumed = Append(@, i)]
    /\ UNCHANGED <<factoryVars, extractVars, instanceVars, queryVars, webVars, pc, request, scraper, outcome, inmoup, mp, page_log,
                   geocode_log>>

\* gather is complete: lines 185-191
MpCollect ==
    /\ pc = "mp_tasks"
    /\ tasks.next > tasks.n
    /\ \A i \in 1..tasks.n : tasks.state[i] = "done"
    /\ outcome' = Returned(Collect(tasks.result))
    /\ pc' = "done"
    /\ UNCHANGED <<factoryVars, extractVars, instanceVars, queryVars, webVars, request, scraper, inmoup, mp, page_log, tasks,
                   geocode_cache, geocode_log>>

----------------------------------------------------------------------------
(* The pipeline entry point, app/scraper.py get_buildings *)

\* request.source of the invocations explored
RequestSources ==
    {Str(K_inmoup), Str(<<"M", "e", "n", "d", "o", "z", "a", "P", "r", "o", "p">>),
     Str(K_zonaprop), Str(<<>>), NoneStr}

GetBuildings ==
    /\ pc = "idle"
    /\ \E source \in RequestSources :
          LET r == get_scraper(scrapers, source) IN
          /\ request' = [source |-> source]
          /\ IF r.ok
             THEN /\ scraper' = r.cls
                  /\ pc' = IF r.cls = "InmoupScraper" THEN "inmoup_httpx" ELSE "mp_loop"
                  /\ UNCHANGED outcome
             ELSE /\ outcome' = Raised(HTTPException(r.status))
                  /\ pc' = "done"
                  /\ UNCHANGED scraper
    /\ UNCHANGED <<factoryVars, extractVars, instanceVars, queryVars, webVars, inmoup, mp, page_log, tasks, geocode_cache, geocode_log>>

----------------------------------------------------------------------------
(* Raw values that the extraction code reads from a page or an API item *)

\* A raw value is [t, v]: its Python type and the pieces of str(value).
\* Missing is a key or an attribute that is not there.
Missing == [t |-> "missing", v |-> <<>>]
PyNone == [t |-> "None", v |-> <<"None">>]
PyStr(s) == [t |-> "str", v |-> s]
PyInt(digits) == [t |-> "int", v |-> <<digits>>]
PyBool(b) == [t |-> "bool", v |-> <<IF b THEN "True" ELSE "False">>]
\* a dict whose "url" entry is the str url
PyDict(url) == [t |-> "dict", v |-> url]
EmptyStr == PyStr(<<>>)

\* dict.get(key, default)
Get(value, default) == IF value.t = "missing" THEN default ELSE value

\* the truth value Python gives the raw value (dict.get without a default
\* gives None for a missing key)
Truthy(value) ==
    CASE value.t \in {"missing", "None"} -> FALSE
      [] value.t = "str" -> value.v # <<>>
      [] value.t = "int" -> value.v # <<"0">>
      [] value.t = "bool" -> value.v = <<"True">>
      [] OTHER -> TRUE

\* str(value), and the value inside an f-string
ToStr(value) == value.v

\* `a or b`
Or(a, b) == IF Truthy(a) THEN a ELSE b

\* url.startswith(('http://', 'https://'))
StartsWithHttp(url) == Len(url) > 0 /\ url[1] \in {"http://", "https://"}

\* the elements of seq at the positions in S, in their order
SubSeqAt(seq, S) ==
    [k \in 1..Cardinality(S) |->
        seq[CHOOSE i \in S : Cardinality({j \in S : j <= i}) = k]]

\* what an extraction of one item gives: a record, or an exception
Extracted(rec) == [ok |-> TRUE, rec |-> rec]
ExtractionRaised == [ok |-> FALSE, rec |-> [source |-> "none"]]

\* a defect: try/except around the whole loop, the first exception ends it
LoopEndingAtFirstError(results) ==
    LET bad == {i \in 1..Len(results) : ~results[i].ok}
        n == IF bad = {} THEN Len(results)
             ELSE (CHOOSE i \in bad : \A j \in bad : i <= j) - 1
    IN  [i \in 1..n |-> results[i].rec]

\* a loop with try/except around the body of each iteration: the records of
\* the items whose extraction did not raise, in the order of the items
LoopSkipping(results) ==
    LET good == SelectSeq(results, LAMBDA r : r.ok)
    IN  [i \in 1..Len(good) |-> good[i].rec]

----------------------------------------------------------------------------
(* InmoupScraper: extraction of records *)

\* _fix_image_url: "" for a falsy value, an http(s) URL as it is, anything
\* else behind the site origin (no slash is inserted); a truthy value that is
\* not a str has no startswith and raises
fix_image_url(image_url) ==
    IF ~Truthy(image_url) THEN [ok |-> TRUE, url |-> <<>>]
    ELSE IF image_url.t # "str" THEN [ok |-> FALSE, url |-> <<>>]
    ELSE IF StartsWithHttp(image_url.v) THEN [ok |-> TRUE, url |-> image_url.v]
    ELSE [ok |-> TRUE, url |-> INMOUP_ORIGIN \o image_url.v]

\* image sources found in pages
SRC_REL == PyStr(<<"/", "fotos/", "1.jpg">>)
SRC_REL_2 == PyStr(<<"/", "fotos/", "2.jpg">>)
SRC_NOSLASH == PyStr(<<"fotos/", "3.jpg">>)
SRC_ABS == PyStr(<<"http://", "cdn.inmoup.com.ar", "/", "4.jpg">>)
SRC_PH == PyStr(<<"/", PH_DIR, PH_FILE>>)

\* n different image sources
Gallery(n) == [i \in 1..n |-> PyStr(<<"/", "galeria/", ToString(i)>>)]

\* the 'fotos' value of an embedded JSON item
NoList == [t |-> "missing", items |-> <<>>]
NoneList == [t |-> "None", items |-> <<>>]
PyList(items) == [t |-> "list", items |-> items]

\* lines 288-317: the record of one item of window.rdb_properties
extract_json(prop) ==
    IF ~prop.dict THEN ExtractionRaised
    ELSE
    LET main_image == fix_image_url(Get(prop.foto_portada, EmptyStr))
        fixed == [i \in 1..Len(prop.fotos.items) |-> fix_image_url(prop.fotos.items[i])]
        kept == {i \in 1..Len(fixed) : fixed[i].url # <<>>}
    IN  IF \/ ~main_image.ok
           \/ prop.fotos.t = "None"
           \/ \E i \in 1..Len(fixed) : ~fixed[i].ok
        THEN ExtractionRaised
        ELSE Extracted(
            [kid |-> ToStr(Get(prop.id, EmptyStr)),
             image |-> main_image.url,
             additional_images |-> [k \in 1..Cardinality(kept) |->
                                       SubSeqAt(fixed, kept)[k].url],
             url |-> INMOUP_ORIGIN \o ToStr(Get(prop.url, EmptyStr)),
             hasgeolocation |-> PyStr(<<IF Truthy(prop.lat) /\ Truthy(prop.lng)
                                        THEN "true" ELSE "false">>),
             latitude |-> ToStr(Get(prop.lat, EmptyStr)),
             longitude |-> ToStr(Get(prop.lng, EmptyStr)),
             source |-> "inmoup"])

\* lines 321-366: the record of one <article> of the parsed HTML.  article.get
\* gives a str or the default; `raises` stands for any exception in the body
extract_card(article) ==
    IF article.raises THEN ExtractionRaised
    ELSE
    LET image_rel == IF article.img.present THEN Get(article.img.src, EmptyStr)
                     ELSE EmptyStr
        image == fix_image_url(image_rel)
    IN  IF ~image.ok THEN ExtractionRaised
        ELSE Extracted(
            [kid |-> ToStr(Get(article.kid, EmptyStr)),
             image |-> image.url,
             additional_images |-> <<>>,
             url |-> IF article.link.present
                     THEN INMOUP_ORIGIN \o ToStr(Get(article.link.href, EmptyStr))
                     ELSE <<>>,
             hasgeolocation |-> Get(article.hasgeolocation, EmptyStr),
             latitude |-> ToStr(Get(article.lat, EmptyStr)),
             longitude |-> ToStr(Get(article.lng, EmptyStr)),
             source |-> "inmoup"])

\* `"empty-photo-box.jpg" in img_url`
HasPlaceholderName(url) == \E i \in 1..Len(url) : url[i] = PH_FILE

\* the src values of the carousel images of an element as the loops of
\* lines 164-178 (skipPlaceholders) and 460-480 (dedupe) collect them
CarouselImages(srcs, skipPlaceholders, dedupe) ==
    LET urls == [i \in 1..Len(srcs) |-> fix_image_url(srcs[i]).url]
        taken == {i \in 1..Len(srcs) :
                    /\ Truthy(srcs[i])
                    /\ skipPlaceholders => ~HasPlaceholderName(srcs[i].v)}
        kept == {i \in taken : dedupe => \A j \in taken : j < i => urls[j] # urls[i]}
    IN  SubSeqAt(urls, kept)

\* lines 436-502: the record of one <article> element of the rendered page.
\* get_attribute gives a str or None; `raises` stands for an exception of a
\* browser call in the body
extract_element(element) ==
    IF element.raises # "no" THEN ExtractionRaised
    ELSE
    LET image_rel == IF element.img.present THEN element.img.src ELSE EmptyStr
        first == CarouselImages(element.fotos_ficha, FALSE, TRUE)
    IN  Extracted(
            [kid |-> ToStr(Or(element.kid, EmptyStr)),
             image |-> fix_image_url(image_rel).url,
             additional_images |->
                 IF Len(first) > 0 THEN first
                 ELSE CarouselImages(element.itemscope, FALSE, TRUE),
             url |-> INMOUP_ORIGIN \o (IF element.link.present
                                       THEN ToStr(element.link.href) ELSE <<>>),
             hasgeolocation |-> Or(element.hasgeolocation, EmptyStr),
             latitude |-> ToStr(Or(element.lat, EmptyStr)),
             longitude |-> ToStr(Or(element.lng, EmptyStr)),
             source |-> "inmoup"])

\* _get_buildings_playwright, lines 436-505: the loop over the elements
playwright_records(elements) ==
    LoopSkipping([i \in 1..Len(elements) |-> extract_element(elements[i])])

\* the image field when a dict was stored where a URL is expected
DICT_VALUE == <<"{'main': ", "...", "}">>

MapPut(image_map, kid, entry) ==
    [k \in DOMAIN image_map \cup {kid} |-> IF k = kid THEN entry ELSE image_map[k]]

\* lines 151-192: what one element adds to image_map.  An exception in the
\* body keeps what was stored before it: "early" is raised before line 161,
\* "late" after it
harvest_element(image_map, element) ==
    LET kid == ToStr(Or(element.kid, EmptyStr))
        image_rel == IF element.img.present THEN element.img.src ELSE EmptyStr
        with_main ==
            IF Truthy(image_rel) /\ ~HasPlaceholderName(image_rel.v)
            THEN MapPut(image_map, kid, [dict |-> FALSE,
                                         main |-> fix_image_url(image_rel).url,
                                         additional |-> <<>>])
            ELSE image_map
        first == CarouselImages(element.fotos_ficha, TRUE, FALSE)
        additional_images == IF Len(first) > 0 THEN first
                             ELSE CarouselImages(element.itemscope, TRUE, FALSE)
    IN  IF element.raises = "early" THEN image_map
        ELSE IF element.raises = "late" \/ Len(additional_images) = 0 THEN with_main
        ELSE IF kid \in DOMAIN with_main
             THEN MapPut(with_main, kid,
                         [dict |-> TRUE,
                          main |-> IF with_main[kid].dict THEN DICT_VALUE
                                   ELSE with_main[kid].main,
                          additional |-> additional_images])
             ELSE MapPut(with_main, kid,
                         [dict |-> TRUE,
                          main |-> fix_image_url(image_rel).url,
                          additional |-> additional_images])

NoImages == [k \in {} |-> [dict |-> FALSE, main |-> <<>>, additional |-> <<>>]]

\* lines 149-192: image_map after the loop over the elements
RECURSIVE harvest(_, _)
harvest(elements, image_map) ==
    IF Len(elements) = 0 THEN image_map
    ELSE harvest(Tail(elements), harvest_element(image_map, Head(elements)))

\* a defect: the cards are scraped after the embedded JSON in every case
HttpxAlwaysScrapesCards(page) ==
    LET properties_data == IF page.json.t = "list" THEN page.json.items ELSE <<>>
    IN  LoopSkipping([i \in 1..Len(properties_data) |->
                         extract_json(properties_data[i])])
        \o LoopSkipping([i \in 1..Len(page.cards) |-> extract_card(page.cards[i])])

\* _get_buildings_httpx, lines 262-368, on a page that was fetched with
\* status 200: the records of the embedded JSON, and the records of the HTML
\* cards when the JSON gave none
get_buildings_httpx(page) ==
    LET properties_data == IF page.json.t = "list" THEN page.json.items ELSE <<>>
        from_json == LoopSkipping([i \in 1..Len(properties_data) |->
                                      extract_json(properties_data[i])])
    IN  IF Len(from_json) > 0 THEN from_json
        ELSE LoopSkipping([i \in 1..Len(page.cards) |-> extract_card(page.cards[i])])

\* raw coordinates found in pages and API items
LatVals == {Missing, PyNone, EmptyStr, PyStr(<<"-32.9">>), PyInt("0")}
LngVals == {Missing, PyNone, EmptyStr, PyStr(<<"-68.8">>), PyInt("0")}
HREF == PyStr(<<"/", "propiedad/", "1">>)

\* items of window.rdb_properties: one plain item, and items that differ
\* from it in the images, in the coordinates, in the url, or are no dict
JsonBase ==
    [dict |-> TRUE, id |-> PyInt("1"), foto_portada |-> SRC_REL,
     fotos |-> PyList(<<SRC_REL_2>>), url |-> HREF,
     lat |-> PyStr(<<"-32.9">>), lng |-> PyStr(<<"-68.8">>)]
JsonFotos ==
    {NoList, NoneList, PyList(<<>>), PyList(<<SRC_REL>>),
     PyList(<<SRC_REL_2, SRC_REL_2>>), PyList(<<SRC_NOSLASH, SRC_ABS>>),
     PyList(<<PyInt("5")>>), PyList(<<EmptyStr, SRC_REL_2>>),
     PyList(Gallery(MaxImages))}
JsonItems ==
    {[JsonBase EXCEPT !.foto_portada = f, !.fotos = g] :
        f \in {Missing, PyNone, SRC_REL, SRC_ABS, SRC_PH, PyInt("5")}, g \in JsonFotos}
    \cup {[JsonBase EXCEPT !.lat = a, !.lng = b] : a \in LatVals, b \in LngVals}
    \cup {[JsonBase EXCEPT !.url = u] : u \in {Missing, PyNone}}
    \cup {[JsonBase EXCEPT !.dict = FALSE]}
\* items of the lists: a plain one, one whose extraction raises, one with
\* the placeholder image
JsonLoopKinds ==
    {JsonBase, [JsonBase EXCEPT !.fotos = NoneList],
     [JsonBase EXCEPT !.foto_portada = SRC_PH, !.fotos = PyList(<<>>)]}
JsonLists ==
    {<<p>> : p \in JsonItems}
    \cup UNION {{[i \in 1..n |-> [kinds[i] EXCEPT !.id = PyInt(ToString(i))]] :
                    kinds \in [1..n -> JsonLoopKinds]} : n \in 2..MaxItems}

\* <article> cards of the parsed HTML
CardBase ==
    [kid |-> PyStr(<<"1">>), lat |-> PyStr(<<"-32.9">>), lng |-> PyStr(<<"-68.8">>),
     hasgeolocation |-> PyStr(<<"true">>),
     img |-> [present |-> TRUE, src |-> SRC_REL],
     link |-> [present |-> TRUE, href |-> HREF], raises |-> FALSE]
NoElem == [present |-> FALSE, src |-> Missing]
NoLink == [present |-> FALSE, href |-> Missing]
Cards ==
    {[CardBase EXCEPT !.hasgeolocation = h, !.lat = a, !.lng = b] :
        h \in {Missing, EmptyStr, PyStr(<<"true">>), PyStr(<<"false">>)},
        a \in {Missing, EmptyStr, PyStr(<<"-32.9">>)},
        b \in {Missing, EmptyStr, PyStr(<<"-68.8">>)}}
    \cup {[CardBase EXCEPT !.img = [present |-> TRUE, src |-> s]] :
            s \in {Missing, EmptyStr, SRC_NOSLASH, SRC_ABS, SRC_PH}}
    \cup {[CardBase EXCEPT !.img = NoElem]}
    \cup {[CardBase EXCEPT !.link = [present |-> TRUE, href |-> Missing]]}
CardLoopKinds ==
    {CardBase, [CardBase EXCEPT !.raises = TRUE], [CardBase EXCEPT !.link = NoLink],
     [CardBase EXCEPT !.img = [present |-> TRUE, src |-> SRC_PH]]}
CardLists ==
    {<<>>} \cup {<<c>> : c \in Cards}
    \cup UNION {{[i \in 1..n |-> [kinds[i] EXCEPT !.kid = PyStr(<<ToString(i)>>)]] :
                    kinds \in [1..n -> CardLoopKinds]} : n \in 1..MaxItems}

\* pages the httpx tactic fetched with status 200
HttpxPages ==
    {[json |-> [t |-> "list", items |-> l], cards |-> c] :
        l \in JsonLists, c \in {<<>>, <<CardBase>>}}
    \cup {[json |-> [t |-> j, items |-> <<>>], cards |-> c] :
            j \in {"absent", "invalid", "list"}, c \in CardLists}

\* <article> elements of the rendered page
ElemBase ==
    [kid |-> PyStr(<<"1">>), lat |-> PyStr(<<"-32.9">>), lng |-> PyStr(<<"-68.8">>),
     hasgeolocation |-> PyStr(<<"true">>),
     img |-> [present |-> TRUE, src |-> SRC_REL],
     fotos_ficha |-> <<SRC_REL_2>>, itemscope |-> <<>>,
     link |-> [present |-> TRUE, href |-> HREF], raises |-> "no"]
Elements ==
    {[ElemBase EXCEPT !.hasgeolocation = h, !.lat = a, !.lng = b] :
        h \in {PyNone, PyStr(<<"true">>), PyStr(<<"false">>)},
        a \in {PyNone, PyStr(<<"-32.9">>)}, b \in {PyNone, PyStr(<<"-68.8">>)}}
    \cup {[ElemBase EXCEPT !.img = i, !.fotos_ficha = f, !.itemscope = s] :
            i \in {NoElem, [present |-> TRUE, src |-> PyNone],
                   [present |-> TRUE, src |-> SRC_REL],
                   [present |-> TRUE, src |-> SRC_PH]},
            f \in {<<>>, <<SRC_REL, SRC_REL>>, <<SRC_PH>>, <<PyNone>>,
                   <<SRC_NOSLASH, SRC_ABS>>, Gallery(MaxImages)},
            s \in {<<>>, <<SRC_REL_2>>}}
    \cup {[ElemBase EXCEPT !.link = l] :
            l \in {NoLink, [present |-> TRUE, href |-> PyNone]}}
    \cup {[ElemBase EXCEPT !.kid = PyNone]}
ElemLoopKinds ==
    {ElemBase, [ElemBase EXCEPT !.raises = "early"], [ElemBase EXCEPT !.link = NoLink]}
ElementLists ==
    {<<>>} \cup {<<e>> : e \in Elements}
    \cup UNION {{[i \in 1..n |-> [kinds[i] EXCEPT !.kid = PyStr(<<ToString(i)>>)]] :
                    kinds \in [1..n -> ElemLoopKinds]} : n \in 1..MaxItems}

\* elements the enhancement pass harvests images from: one or two, of the
\* same listing or of two
HarvestKinds ==
    {[ElemBase EXCEPT !.fotos_ficha = <<>>],
     [ElemBase EXCEPT !.img = [present |-> TRUE, src |-> SRC_PH]],
     [ElemBase EXCEPT !.fotos_ficha = Gallery(MaxImages)],
     [ElemBase EXCEPT !.raises = "late"],
     [ElemBase EXCEPT !.img = [present |-> TRUE, src |-> SRC_PH],
                      !.fotos_ficha = <<>>]}
HarvestLists ==
    UNION {{[i \in 1..n |-> [kinds[i] EXCEPT !.kid = PyStr(<<kid[i]>>)]] :
               kinds \in [1..n -> HarvestKinds], kid \in [1..n -> {"1", "2"}]} :
           n \in 0..2}

\* nothing was extracted yet
NoExtraction ==
    [path |-> "none", input |-> <<>>, elements |-> <<>>, fail |-> "none",
     tactic |-> <<>>, records |-> <<>>]

\* InmoupScraper.get_buildings on a page the httpx tactic fetched: the
\* records of the page, and the enhancement pass over them when every image
\* is the placeholder (lines 53-71)
InmoupFetchedPage ==
    /\ ex.path = "none"
    /\ \E page \in HttpxPages :
       \E buildings \in {get_buildings_httpx(page)} :
          IF missing_images(buildings) /\ Len(buildings) > 0
          THEN \E failAt \in {"none", "goto"}, elements \in HarvestLists :
                  ex' = [path |-> "inmoup_httpx", input |-> page,
                         elements |-> elements, fail |-> failAt,
                         tactic |-> buildings,
                         records |-> enhance_with_playwright_images(
                                        buildings, failAt, harvest(elements, NoImages))]
          ELSE ex' = [path |-> "inmoup_httpx", input |-> page,
                      elements |-> <<>>, fail |-> "none",
                      tactic |-> buildings, records |-> buildings]
    /\ UNCHANGED <<factoryVars, pipeVars, instanceVars, queryVars, webVars>>

\* InmoupScraper.get_buildings when the httpx tactic raised: the records of
\* the browser tactic on the rendered page
InmoupRenderedPage ==
    /\ ex.path = "none"
    /\ \E elements \in ElementLists :
       \E buildings \in {playwright_records(elements)} :
          ex' = [path |-> "inmoup_browser", input |-> elements,
                 elements |-> <<>>, fail |-> "none",
                 tactic |-> buildings, records |-> buildings]
    /\ UNCHANGED <<factoryVars, pipeVars, instanceVars, queryVars, webVars>>

\* an attribute as BeautifulSoup's article.get sees it: absent where
\* Playwright's get_attribute gives None
SoupAttr(value) == IF value = PyNone THEN Missing ELSE value

\* the <article> of the static HTML (line 263) for an element of the rendered
\* page (line 432) with the same content
CardOf(element) ==
    [kid |-> SoupAttr(element.kid), lat |-> SoupAttr(element.lat),
     lng |-> SoupAttr(element.lng),
     hasgeolocation |-> SoupAttr(element.hasgeolocation),
     img |-> [present |-> element.img.present, src |-> SoupAttr(element.img.src)],
     link |-> [present |-> element.link.present,
               href |-> SoupAttr(element.link.href)],
     raises |-> (element.raises # "no")]

\* embedded arrays of the pages both tactics are run on: none, one item, one
\* item that yields no record
SamePageArrays ==
    {[t |-> "absent", items |-> <<>>],
     [t |-> "list", items |-> <<JsonBase>>],
     [t |-> "list", items |-> <<[JsonBase EXCEPT !.fotos = NoneList]>>]}

\* both tactics on the same page content: _get_buildings_httpx on the static
\* page (tactic) and _get_buildings_playwright on its rendering (records)
InmoupSamePageBothTactics ==
    /\ ex.path = "none"
    /\ \E json \in SamePageArrays, elements \in ElementLists :
       \E page \in {[json |-> json,
                     cards |-> [i \in 1..Len(elements) |-> CardOf(elements[i])]]} :
          ex' = [path |-> "inmoup_both", input |-> page,
                 elements |-> elements, fail |-> "none",
                 tactic |-> get_buildings_httpx(page),
                 records |-> playwright_records(elements)]
    /\ UNCHANGED <<factoryVars, pipeVars, instanceVars, queryVars, webVars>>

----------------------------------------------------------------------------
(* MendozaPropScraper: the record of one raw item, _process_property *)

MP_ORIGIN == <<"https://", "www.mendozaprop.com">>

\* additional images kept per record: processed_images[:10] and [1:11]
AdditionalCap == 10

\* _extract_value: the first truthy value of the keys tried, else ""
extract_value(values) ==
    LET found == {i \in 1..Len(values) : Truthy(values[i])}
    IN  IF found = {} THEN EmptyStr
        ELSE values[CHOOSE i \in found : \A j \in found : i <= j]

\* a nested object of a raw item: absent, a dict, or something else
NoDict == [t |-> "missing", latitude |-> Missing, longitude |-> Missing,
           lat |-> Missing, lng |-> Missing]
\* prop.get(key, {}) is a dict when the key is absent
IsDict(value) == value.t \in {"missing", "dict"}

\* lines 218-239: the coordinates of the raw item
coordinates(prop) ==
    LET flat == [latitude |-> extract_value(<<prop.latitude, prop.google_lat>>),
                 longitude |-> extract_value(<<prop.longitude, prop.google_lng>>)]
        after_map ==
            IF IsDict(prop.map)
            THEN [latitude |-> Or(flat.latitude, Get(prop.map.latitude, EmptyStr)),
                  longitude |-> Or(flat.longitude, Get(prop.map.longitude, EmptyStr))]
            ELSE flat
        after_coords ==
            IF IsDict(prop.coords)
            THEN [latitude |-> Or(after_map.latitude, Get(prop.coords.lat, EmptyStr)),
                  longitude |-> Or(after_map.longitude, Get(prop.coords.lng, EmptyStr))]
            ELSE after_map
        loc == prop.location
    IN  IF Truthy(flat.latitude) /\ Truthy(flat.longitude) THEN flat
        ELSE IF IsDict(loc)
             THEN [latitude |-> Or(after_coords.latitude,
                                   IF loc.latitude.t # "missing" THEN loc.latitude
                                   ELSE Get(loc.lat, EmptyStr)),
                   longitude |-> Or(after_coords.longitude,
                                    IF loc.longitude.t # "missing" THEN loc.longitude
                                    ELSE Get(loc.lng, EmptyStr))]
             ELSE after_coords

\* line 243: the item has an address and lacks a coordinate, so the cache
\* and then the geocoder are asked
NeedsGeocoding(prop) ==
    LET c == coordinates(prop)
    IN  Truthy(Get(prop.address, EmptyStr)) /\ (~Truthy(c.latitude) \/ ~Truthy(c.longitude))

\* truth value of a list-valued field
ListTruthy(value) == value.t \in {"list", "str"} /\ Len(value.items) > 0

\* lines 262-272: the image list of the raw item
all_images(prop) ==
    LET second == IF ListTruthy(prop.images) THEN prop.images
                  ELSE IF prop.photos.t # "missing" THEN prop.photos ELSE prop.gallery
    IN  IF ListTruthy(second) THEN second
        ELSE IF prop.media.t = "dict" THEN prop.media.images
        ELSE IF prop.media.t = "missing" THEN NoList
        ELSE second

\* lines 287-298: the str elements, and the url of the dict elements that
\* have one
processed_images(items) ==
    LET kept == {i \in 1..Len(items) :
                    \/ items[i].t = "str"
                    \/ items[i].t = "dict" /\ items[i].v # <<>>}
    IN  [k \in 1..Cardinality(kept) |-> PyStr(SubSeqAt(items, kept)[k].v)]

\* lines 320-327: a URL that is not absolute goes behind the site origin,
\* with a slash between them
mp_absolute(url) ==
    IF StartsWithHttp(url) THEN url
    ELSE MP_ORIGIN \o (IF url[1] = "/" THEN url ELSE <<"/">> \o url)

\* seq[a:b] of Python, 0-based and end-exclusive
Slice(seq, a, b) ==
    [k \in 1..(IF Len(seq) < b THEN Len(seq) - a ELSE b - a) |-> seq[a + k]]

\* lines 255-327: image and additional_images of the raw item, or the
\* AttributeError of a main image that is no str
images_of(prop) ==
    LET direct == IF prop.image.t # "missing" THEN prop.image
                  ELSE Get(prop.photo, EmptyStr)
        all == all_images(prop)
        processed == IF ListTruthy(all) THEN processed_images(all.items) ELSE <<>>
        main_image == IF Truthy(direct) THEN direct
                      ELSE IF Len(processed) > 0 THEN processed[1]
                      ELSE EmptyStr
        additional == IF Truthy(direct) THEN Slice(processed, 0, AdditionalCap)
                      ELSE Slice(processed, 1, AdditionalCap + 1)
        main_url == IF main_image.t \in {"dict", "list"} THEN PyStr(main_image.v)
                    ELSE main_image
        kept == {i \in 1..Len(additional) : Truthy(additional[i])}
    IN  IF Truthy(main_url) /\ main_url.t # "str"
        THEN [ok |-> FALSE, image |-> <<>>, additional_images |-> <<>>]
        ELSE [ok |-> TRUE,
              image |-> IF Truthy(main_url) THEN mp_absolute(main_url.v) ELSE <<>>,
              additional_images |->
                  [k \in 1..Cardinality(kept) |->
                      mp_absolute(SubSeqAt(additional, kept)[k].v)]]

\* _process_property: the record, or the exception the task ends with.
\* `geo` is the pair the cache or the geocoder gives when they are asked
process_property(prop, geo) ==
    LET found == coordinates(prop)
        c == IF NeedsGeocoding(prop) THEN geo ELSE found
        images == images_of(prop)
        property_id == Get(prop.id, EmptyStr)
    IN  IF ~images.ok \/ prop.parking.t \notin {"missing", "int", "bool"}
        THEN ExtractionRaised
        ELSE Extracted(
            [id |-> ToStr(property_id),
             image |-> images.image,
             additional_images |-> images.additional_images,
             url |-> MP_ORIGIN \o <<"/", "alquiler/">> \o ToStr(property_id),
             hasgeolocation |-> PyBool(Truthy(c.latitude) /\ Truthy(c.longitude)),
             latitude |-> ToStr(c.latitude),
             longitude |-> ToStr(c.longitude),
             source |-> "mendozaprop"])

\* a list whose first element is the str url
PyFirst(url) == [t |-> "list", v |-> url]
\* a dict with coordinates under the given keys
Nested(latitude, longitude, lat, lng) ==
    [t |-> "dict", latitude |-> latitude, longitude |-> longitude,
     lat |-> lat, lng |-> lng]
NotADict == [NoDict EXCEPT !.t = "other"]
NoMedia == [t |-> "missing", images |-> NoList]

IMG_A == PyStr(<<"/", "uploads/", "a.jpg">>)
IMG_B == PyStr(<<"uploads/", "b.jpg">>)
IMG_C == PyStr(<<"https://", "cdn.mendozaprop.com", "/", "c.jpg">>)
LAT == PyStr(<<"-32.88">>)
LNG == PyStr(<<"-68.84">>)
\* the coordinates under "map", "coords" and "location" differ from the flat
\* ones and from each other
MAP_LAT == PyStr(<<"-32.10">>)
MAP_LNG == PyStr(<<"-68.10">>)
COORDS_LAT == PyStr(<<"-32.20">>)
COORDS_LNG == PyStr(<<"-68.20">>)
LOC_LAT == PyStr(<<"-32.30">>)
LOC_LNG == PyStr(<<"-68.30">>)

\* raw items of the MendozaProp API: one plain item, and items that differ
\* from it in the images, in the coordinates, or in a field that makes the
\* record fail
MpBase ==
    [id |-> PyInt("7"), address |-> PyStr(<<"Belgrano 10">>),
     latitude |-> LAT, google_lat |-> Missing,
     longitude |-> LNG, google_lng |-> Missing,
     map |-> NoDict, coords |-> NoDict, location |-> NoDict,
     images |-> PyList(<<IMG_A, IMG_B>>), photos |-> NoList, gallery |-> NoList,
     media |-> NoMedia, image |-> Missing, photo |-> Missing, parking |-> PyInt("1")]
MpImageLists ==
    {NoList, NoneList, PyList(<<>>), PyList(<<IMG_A>>), PyList(<<IMG_A, IMG_B>>),
     PyList(<<IMG_A, IMG_A>>), PyList(<<PyDict(IMG_C.v), EmptyStr, PyInt("5")>>),
     PyList(Gallery(MaxImages)), [t |-> "str", items |-> <<IMG_B>>]}
MpMainImages ==
    {Missing, EmptyStr, IMG_A, IMG_B, IMG_C, PyDict(IMG_A.v), PyDict(<<>>),
     PyFirst(IMG_B.v), PyInt("5")}
MpRawItems ==
    {[MpBase EXCEPT !.images = l, !.image = m, !.photos = p, !.media = d] :
        l \in MpImageLists, m \in MpMainImages,
        p \in {NoList, PyList(<<IMG_C>>)},
        d \in {NoMedia, [t |-> "dict", images |-> PyList(<<IMG_B>>)],
               [t |-> "other", images |-> NoList]}}
    \cup {[MpBase EXCEPT !.latitude = f[1], !.longitude = f[2], !.map = m,
                         !.coords = c, !.location = l, !.address = a] :
            f \in {<<Missing, Missing>>, <<LAT, LNG>>, <<LAT, Missing>>,
                   <<PyInt("0"), LNG>>},
            m \in {NoDict, Nested(MAP_LAT, MAP_LNG, Missing, Missing),
                   Nested(Missing, MAP_LNG, Missing, Missing), NotADict},
            c \in {NoDict, Nested(Missing, Missing, COORDS_LAT, COORDS_LNG)},
            l \in {NoDict, Nested(LOC_LAT, LOC_LNG, Missing, Missing),
                   Nested(Missing, Missing, LOC_LAT, LOC_LNG),
                   Nested(PyNone, PyNone, Missing, Missing),
                   Nested(Missing, Missing, PyInt("0"), PyInt("0"))},
            a \in {Missing, PyStr(<<"San Martin 100">>)}}
    \cup {[MpBase EXCEPT !.google_lat = LAT, !.google_lng = LNG,
                         !.latitude = EmptyStr, !.longitude = Missing],
          [MpBase EXCEPT !.parking = PyNone], [MpBase EXCEPT !.id = Missing],
          [MpBase EXCEPT !.photo = IMG_A, !.images = NoList, !.gallery = PyList(<<IMG_B>>)]}

\* what the cache or the geocoder gives for an address
GeoPairs ==
    {[latitude |-> PyStr(<<"-32.89">>), longitude |-> PyStr(<<"-68.83">>)],
     [latitude |-> EmptyStr, longitude |-> EmptyStr],
     [latitude |-> PyStr(<<"-32.89">>), longitude |-> EmptyStr]}
NoGeo == [latitude |-> EmptyStr, longitude |-> EmptyStr]

\* one enrichment task: the record of a raw item
MpProcessProperty ==
    /\ ex.path = "none"
    /\ \E prop \in MpRawItems :
       \E geo \in (IF NeedsGeocoding(prop) THEN GeoPairs ELSE {NoGeo}) :
       \E r \in {process_property(prop, geo)} :
          ex' = [path |-> "mendozaprop", input |-> prop, elements |-> <<>>,
                 fail |-> IF r.ok THEN "none" ELSE "raised",
                 tactic |-> <<>>,
                 records |-> IF r.ok THEN <<r.rec>> ELSE <<>>]
    /\ UNCHANGED <<factoryVars, pipeVars, instanceVars, queryVars, webVars>>

----------------------------------------------------------------------------
(* Client objects: what get_scraper constructs, and the cache each one owns *)

\* MendozaPropScraper.__init__: self.geocode_cache = {}; InmoupScraper has no
\* __init__ and no cache, its object carries an empty one that is never used
construct(cls) == [cls |-> cls, geocode_cache |-> EmptyCache]

\* a defect: one object per class, handed to every caller
SharedClient(heap, cls) ==
    LET same == {i \in 1..Len(heap) : heap[i].cls = cls} IN
    IF same = {} THEN [heap |-> Append(heap, construct(cls)), ref |-> Len(heap) + 1]
    ELSE [heap |-> heap, ref |-> CHOOSE i \in same : TRUE]

\* `cls._scrapers[source_lower]()`: the call constructs an object; the heap
\* grows by it and the caller gets its identity
new_client(heap, cls) ==
    [heap |-> Append(heap, construct(cls)), ref |-> Len(heap) + 1]

\* addresses of the raw items that need geocoding
Addresses == {"San Martin 100", "Colon 20"}

\* sources of the invocations
CallSources == {Str(K_inmoup), Str(K_mendozaprop), Str(Upper(K_mendozaprop))}

\* get_buildings of app/scraper.py up to the client it obtains
CallGetScraper ==
    /\ Len(calls) < MaxCalls
    /\ \E source \in CallSources :
          \E r \in {get_scraper(scrapers, source)} :
          \E n \in {new_client(instances, r.cls)} :
             /\ r.ok
             /\ instances' = n.heap
             /\ calls' = Append(calls,
                    [cls |-> r.cls, ref |-> n.ref,
                     first_seen |-> DOMAIN n.heap[n.ref].geocode_cache,
                     written |-> {}, hits |-> {}])
    /\ UNCHANGED <<factoryVars, pipeVars, extractVars, queryVars, webVars>>

\* _process_property of one invocation's client consults self.geocode_cache
\* for an address: a hit reads the entry, a miss geocodes and stores a
\* non-empty pair
CallConsultCache ==
    /\ \E c \in 1..Len(calls), address \in Addresses :
          \E cache \in {instances[calls[c].ref].geocode_cache} :
             /\ calls[c].cls = "MendozaPropScraper"
             /\ IF address \in DOMAIN cache
                THEN /\ calls' = [calls EXCEPT ![c].hits = @ \cup {address}]
                     /\ UNCHANGED instances
                ELSE \E pair \in GeocodeResults(address) :
                        IF pair[1] # "" /\ pair[2] # ""
                        THEN /\ instances' = [instances EXCEPT
                                   ![calls[c].ref].geocode_cache =
                                       CachePut(cache, address, pair)]
                             /\ calls' = [calls EXCEPT ![c].written = @ \cup {address}]
                        ELSE UNCHANGED <<instances, calls>>
    /\ UNCHANGED <<factoryVars, pipeVars, extractVars, queryVars, webVars>>

----------------------------------------------------------------------------
(* MendozaPropScraper: the property-type filter of the API query *)

W_depart == <<"d", "e", "p", "a", "r", "t">>
W_casa == <<"c", "a", "s", "a">>

\* `sub in chars`
Contains(chars, sub) ==
    \E i \in 1..(Len(chars) - Len(sub) + 1) : SubSeq(chars, i, i + Len(sub) - 1) = sub

\* line 46: the codes of the default propertyType parameter, in its order
DefaultPropertyTypes ==
    <<"40", "3", "45", "46", "5", "1119", "1154", "1118", "1117", "1144", "1145",
      "4", "7", "1107", "1106", "1108", "1140">>

\* a defect: the test for houses comes first
FilterHouseFirst(req) ==
    IF req.none \/ req.property_type.none \/ req.property_type.s = <<>>
    THEN DefaultPropertyTypes
    ELSE IF Contains(Lower(req.property_type.s), W_casa) THEN <<"1">>
    ELSE IF Contains(Lower(req.property_type.s), W_depart) THEN <<"3">>
    ELSE DefaultPropertyTypes

\* lines 45-55: the propertyType parameter for a request req (None, or an object
\* whose property_type is None or a str)
property_type_filter(req) ==
    IF req.none \/ req.property_type.none \/ req.property_type.s = <<>>
    THEN DefaultPropertyTypes
    ELSE IF Contains(Lower(req.property_type.s), W_depart) THEN <<"3">>
    ELSE IF Contains(Lower(req.property_type.s), W_casa) THEN <<"1">>
    ELSE DefaultPropertyTypes

\* words around the two keywords
W_amento == <<"a", "m", "e", "n", "t", "o">>
W_y == <<" ", "y", " ">>

\* property_type values: every spelling of "depart" and of "casa", alone and
\* inside longer words, values with both, values with neither
PropertyTypes ==
    {Str(t) : t \in CaseVariants(W_depart) \cup CaseVariants(W_casa)}
    \cup {Str(t \o W_amento) : t \in CaseVariants(<<"d", "e", "p">>)}
    \cup {Str(t \o <<"s">>) : t \in CaseVariants(W_casa)}
    \cup {Str(a \o W_y \o b) : a \in {W_casa, Upper(W_casa)},
                               b \in {W_depart, Capitalized(W_depart) \o W_amento}}
    \cup {Str(b \o W_y \o a) : a \in {W_casa, Capitalized(W_casa)},
                               b \in {W_depart, Upper(W_depart)}}
    \cup {NoneStr, Str(<<>>), Str(<<"t", "e", "r", "r", "e", "n", "o">>),
          Str(<<"d", "e", "p", "t", "o">>), Str(<<"c", "a", "s", " ", "a">>),
          Str(<<"d", "e", "p", "a", "r">>), Str(<<"P", "H">>)}

\* the requests get_buildings is called with
FilterRequests ==
    {[none |-> FALSE, property_type |-> t] : t \in PropertyTypes}
    \cup {[none |-> TRUE, property_type |-> NoneStr]}

NoQuery == [built |-> FALSE, request |-> [none |-> TRUE, property_type |-> NoneStr],
            property_type |-> <<>>]

\* get_buildings, lines 42-55
MpBuildQuery ==
    /\ ~query.built
    /\ \E r \in FilterRequests :
          query' = [built |-> TRUE, request |-> r, property_type |-> property_type_filter(r)]
    /\ UNCHANGED <<factoryVars, pipeVars, extractVars, instanceVars, webVars>>

-----------------------------------------------------------------------------
(* RateLimitMiddleware (app/main.py) *)

\* the constructor's parameters max_requests and window_seconds; the
\* application passes 100 and 60, the model a small limit and a short window
max_requests == 2
window_seconds == 2
\* the clock stops at MaxTime, and at most MaxDispatch requests arrive
MaxTime == 4
MaxDispatch == 5

ClientIPs == {"10.0.0.1", "10.0.0.2"}

\* defaultdict(list): an IP not seen yet has the empty list
NoRequestCounts == [client_ip \in ClientIPs |-> <<>>]

\* lines 41-44: the timestamps still inside the window
RecentTimestamps(timestamps, current_time) ==
    SelectSeq(timestamps, LAMBDA timestamp : timestamp > current_time - window_seconds)

Forwarded(client_ip, current_time) ==
    [client_ip |-> client_ip, time |-> current_time, forwarded |-> TRUE]
Rejected(client_ip, current_time) ==
    [client_ip |-> client_ip, time |-> current_time, forwarded |-> FALSE]

\* a defect: the rejected request is recorded as well
DispatchRecordsRejected(client_ip) ==
    /\ Len(dispatch_log) < MaxDispatch
    /\ LET current_time == time_time
           recent == RecentTimestamps(request_counts[client_ip], current_time)
       IN  /\ request_counts' = [request_counts EXCEPT ![client_ip] = Append(recent, current_time)]
           /\ dispatch_log' = Append(dispatch_log,
                  IF Len(recent) >= max_requests
                  THEN Rejected(client_ip, current_time)
                  ELSE Forwarded(client_ip, current_time))
    /\ UNCHANGED <<factoryVars, pipeVars, extractVars, instanceVars, queryVars, csrfVars, time_time>>

\* RateLimitMiddleware.dispatch up to `await call_next(request)`: the list of
\* the IP is pruned, then the request is rejected or recorded and forwarded
dispatch(client_ip) ==
    /\ Len(dispatch_log) < MaxDispatch
    /\ LET current_time == time_time
           recent == RecentTimestamps(request_counts[client_ip], current_time)
       IN  IF Len(recent) >= max_requests
           THEN /\ request_counts' = [request_counts EXCEPT ![client_ip] = recent]
                /\ dispatch_log' = Append(dispatch_log, Rejected(client_ip, current_time))
           ELSE /\ request_counts' = [request_counts EXCEPT ![client_ip] = Append(recent, current_time)]
                /\ dispatch_log' = Append(dispatch_log, Forwarded(client_ip, current_time))
    /\ UNCHANGED <<factoryVars, pipeVars, extractVars, instanceVars, queryVars, csrfVars, time_time>>

\* a request of some client arrives
Dispatch == \E client_ip \in ClientIPs : dispatch(client_ip)

\* a second passes
TimePasses ==
    /\ time_time < MaxTime
    /\ time_time' = time_time + 1
    /\ UNCHANGED <<factoryVars, pipeVars, extractVars, instanceVars, queryVars, csrfVars,
                   request_counts, dispatch_log>>

-----------------------------------------------------------------------------
(* CSRF tokens (app/auth/security.py, app/main.py) *)

\* security.py line 23: the default of CSRF_TOKEN_EXPIRE_HOURS
CSRF_TOKEN_EXPIRE_HOURS == 24
\* at most MaxTokens tokens are issued; the clock advances HourStep hours
\* at a time up to MaxHours
MaxTokens == 2
HourStep == 12
MaxHours == 36

\* tokens are the integers from 1 (secrets.token_hex(32) is a new value at
\* each call); NoToken is None or the empty string
NoToken == 0
Tokens == 1..(MaxTokens + 1)

Localhosts == {"127.0.0.1", "localhost", "::1"}
Hosts == {"127.0.0.1", "10.0.0.1"}

W_star == <<"*">>
W_app == <<"a", ".", "i", "o">>
\* the Origin (or else Referer) header of a request: none, a page of the
\* allowed origin, a page of another origin
Origins == {NoneStr, Str(W_app \o <<"/", "x">>), Str(<<"b", ".", "i", "o">>)}

\* what csrf_tokens holds for a token: the dict generate_csrf_token
\* stores, or a plain str
TokenDict(created_at, expires_at) ==
    [t |-> "dict", created_at |-> created_at, expires_at |-> expires_at, v |-> ""]
TokenStr(v) ==
    [t |-> "str", created_at |-> 0, expires_at |-> 0, v |-> v]

NoTokens == [token \in {} |-> TokenStr("")]

\* csrf_tokens[token] = entry
TokenPut(tokens, token, entry) ==
    [k \in DOMAIN tokens \cup {token} |-> IF k = token THEN entry ELSE tokens[k]]

NotLoaded == [loaded |-> FALSE, CSRF_ENABLED |-> TRUE, CSRF_ALLOWED_ORIGINS |-> <<W_star>>]
NoLogin == [done |-> FALSE, token |-> NoToken, issued |-> FALSE, host |-> "",
            origin |-> NoneStr, at |-> 0, result |-> ""]

\* security.py lines 22-25: the settings are read when the module is imported
LoadSecurityModule ==
    /\ ~csrf_env.loaded
    /\ \E enabled \in BOOLEAN, allowed \in {<<W_star>>, <<W_app>>} :
          csrf_env' = [loaded |-> TRUE, CSRF_ENABLED |-> enabled,
                       CSRF_ALLOWED_ORIGINS |-> allowed]
    /\ UNCHANGED <<factoryVars, pipeVars, extractVars, instanceVars, queryVars, rateVars,
                   csrf_tokens, utcnow, csrf_issued, csrf_login>>

\* security.py lines 80-88: generate_csrf_token stores a dict with the expiry
generate_csrf_token(tokens, token, now) ==
    TokenPut(tokens, token, TokenDict(now, now + CSRF_TOKEN_EXPIRE_HOURS))

\* main.py lines 107-115: the endpoint generates the token, then stores the
\* client's address under the same key
get_csrf_token(host) ==
    /\ csrf_env.loaded
    /\ Cardinality(DOMAIN csrf_issued) < MaxTokens
    /\ LET token == Cardinality(DOMAIN csrf_issued) + 1
           generated == generate_csrf_token(csrf_tokens, token, utcnow)
       IN  /\ csrf_tokens' = TokenPut(generated, token, TokenStr(host))
           /\ csrf_issued' = TokenPut(csrf_issued, token, generated[token])
    /\ UNCHANGED <<factoryVars, pipeVars, extractVars, instanceVars, queryVars, rateVars,
                   utcnow, csrf_env, csrf_login>>

GetCsrfToken == \E host \in Hosts : get_csrf_token(host)

\* security.py lines 72-77: `data.get('expires_at', current_time)` raises
\* AttributeError on an entry that is a str, before any token is removed
clean_expired_csrf_tokens(tokens, current_time) ==
    IF \E token \in DOMAIN tokens : tokens[token].t = "str"
    THEN [raised |-> TRUE, tokens |-> tokens]
    ELSE [raised |-> FALSE,
          tokens |-> [token \in {k \in DOMAIN tokens : ~(current_time > tokens[k].expires_at)}
                         |-> tokens[token]]]

\* security.py lines 107-116: some allowed origin is a substring of the origin
OriginAllowed(env, origin) ==
    \/ origin.none
    \/ env.CSRF_ALLOWED_ORIGINS = <<W_star>>
    \/ \E k \in 1..Len(env.CSRF_ALLOWED_ORIGINS) :
          Contains(origin.s, env.CSRF_ALLOWED_ORIGINS[k])

\* security.py lines 91-130: the value returned, or the exception raised,
\* and the store the call leaves
verify_csrf_token(env, tokens, token, host, origin, now) ==
    IF ~env.CSRF_ENABLED THEN [result |-> "True", tokens |-> tokens]
    ELSE LET cleaned == clean_expired_csrf_tokens(tokens, now) IN
         IF cleaned.raised THEN [result |-> "AttributeError", tokens |-> tokens]
         ELSE IF token = NoToken THEN [result |-> "True", tokens |-> cleaned.tokens]
         ELSE IF host \in Localhosts THEN [result |-> "True", tokens |-> cleaned.tokens]
         ELSE IF ~OriginAllowed(env, origin) THEN [result |-> "False", tokens |-> cleaned.tokens]
         ELSE IF token \in DOMAIN cleaned.tokens /\ now <= cleaned.tokens[token].expires_at
              THEN [result |-> "True", tokens |-> cleaned.tokens]
              ELSE [result |-> "False", tokens |-> cleaned.tokens]

\* security.py lines 184-193, the CSRF step of POST /token: a request
\* without token skips the verification; "False" is answered 403, an
\* AttributeError leaves the handler
authenticate_user_processed(token, host, origin) ==
    /\ csrf_env.loaded
    /\ IF token = NoToken
       THEN /\ csrf_login' = [done |-> TRUE, token |-> token, issued |-> FALSE, host |-> host,
                              origin |-> origin, at |-> utcnow, result |-> "skipped"]
            /\ UNCHANGED csrf_tokens
       ELSE LET verified == verify_csrf_token(csrf_env, csrf_tokens, token, host, origin, utcnow)
            IN  /\ csrf_login' = [done |-> TRUE, token |-> token,
                                  issued |-> token \in DOMAIN csrf_issued, host |-> host,
                                  origin |-> origin, at |-> utcnow, result |-> verified.result]
                /\ csrf_tokens' = verified.tokens
    /\ UNCHANGED <<factoryVars, pipeVars, extractVars, instanceVars, queryVars, rateVars,
                   utcnow, csrf_env, csrf_issued>>

Login ==
    \E token \in {NoToken} \cup Tokens, host \in Hosts, origin \in Origins :
        authenticate_user_processed(token, host, origin)

\* HourStep hours pass
HoursPass ==
    /\ utcnow + HourStep <= MaxHours
    /\ utcnow' = utcnow + HourStep
    /\ UNCHANGED <<factoryVars, pipeVars, extractVars, instanceVars, queryVars, rateVars,
                   csrf_tokens, csrf_env, csrf_issued, csrf_login>>

----------------------------------------------------------------------------
(* Specifications *)

Init ==
    /\ scrapers = InitialScrapers
    /\ nregs = 0
    /\ lookup = NoLookup
    /\ pc = "idle"
    /\ request = [source |-> NoneStr]
    /\ scraper = "none"
    /\ outcome = Pending
    /\ inmoup = InitInmoup
    /\ mp = InitMp
    /\ page_log = <<>>
    /\ tasks = NoTasks
    /\ geocode_cache = EmptyCache
    /\ geocode_log = <<>>
    /\ last_reg = NoReg
    /\ ex = NoExtraction
    /\ instances = <<>>
    /\ calls = <<>>
    /\ query = NoQuery
    /\ request_counts = NoRequestCounts
    /\ time_time = 0
    /\ dispatch_log = <<>>
    /\ csrf_tokens = NoTokens
    /\ utcnow = 0
    /\ csrf_env = NotLoaded
    /\ csrf_issued = NoTokens
    /\ csrf_login = NoLogin

\* one invocation of the entry point
Next ==
    \/ GetBuildings
    \/ InmoupHttpx
    \/ InmoupEnhance
    \/ InmoupPlaywright
    \/ MpSendPage
    \/ MpRequestPage
    \/ MpSendRetry
    \/ MpRetryPage
    \/ MpStartTasks
    \/ MpGeocodeReturn
    \/ MpCollect

Spec == Init /\ [][Next]_vars

\* the factory alone: registrations and lookups
NextFactory ==
    \/ RegisterScraper
    \/ GetScraper

SpecFactory == Init /\ [][NextFactory]_vars

\* several invocations, each with the client the factory gave it
NextInstances ==
    \/ CallGetScraper
    \/ CallConsultCache

SpecInstances == Init /\ [][NextInstances]_vars

\* one extraction of records from a page or from a raw item
NextExtract ==
    \/ InmoupFetchedPage
    \/ InmoupRenderedPage
    \/ InmoupSamePageBothTactics
    \/ MpProcessProperty

SpecExtract == Init /\ [][NextExtract]_vars

\* the filter of the MendozaProp query, for every request
NextQuery ==
    \/ MpBuildQuery

SpecQuery == Init /\ [][NextQuery]_vars

\* requests of several clients arriving at the rate limiter over time
NextRateLimit ==
    \/ Dispatch
    \/ TimePasses

SpecRateLimit == Init /\ [][NextRateLimit]_vars

\* tokens are issued and presented to the login endpoint over time
NextCsrf ==
    \/ LoadSecurityModule
    \/ GetCsrfToken
    \/ Login
    \/ HoursPass

SpecCsrf == Init /\ [][NextCsrf]_vars

----------------------------------------------------------------------------
(* Properties *)

\* the MendozaProp invocation has left the pagination loop without an error
\* and its tasks were gathered
Gathered == scraper = "MendozaPropScraper" /\ pc \in {"mp_tasks", "done"}
                /\ mp.failed_page = 0

\* C1: the enrichment tasks that raise are dropped from the result and nothing
\* else is: once the raw items are gathered the call returns a list, and the
\* list holds exactly the records of the tasks that did not raise, in the
\* order of their items; a raising task takes no sibling with it.
C1_FailingTaskDropsOnlyItself ==
    (Gathered /\ pc = "done") =>
        LET good == {i \in 1..tasks.n : tasks.result[i].ok}
            recs == outcome.records
        IN  /\ outcome.kind = "list"
            /\ Len(recs) = Cardinality(good)
            \* the id of a raw item is its position, so a record names its task
            /\ \A i \in 1..tasks.n :
                  /\ mp.properties_data[i].id = i
                  /\ tasks.result[i].id = i
                  /\ tasks.result[i].ok <=> mp.properties_data[i].parking # "null"
            /\ \A k \in 1..Len(recs) :
                  recs[k].id \in good /\ recs[k] = tasks.result[recs[k].id]
            /\ \A k \in 1..(Len(recs) - 1) : recs[k].id < recs[k + 1].id

\* a finished call in which a task raised before a sibling that is returned
C1_Witness ==
    /\ Gathered /\ pc = "done"
    /\ \E i, j \in 1..tasks.n :
          /\ i < j /\ ~tasks.result[i].ok /\ tasks.result[j].ok
          /\ \E k \in 1..Len(outcome.records) : outcome.records[k].id = tasks.result[j].id

\* C2 as stated: when page n and its retry fail, the pages collected before
\* are kept and returned, and the call fails only when n = 1.
C2_RetryFailureKeepsPages ==
    (pc = "done" /\ mp.failed_page > 0) =>
        IF mp.failed_page = 1
        THEN outcome.kind = "error"
        ELSE outcome.kind = "list" /\ Len(outcome.records) > 0

\* C2 amended: when page n and its retry fail, the call fails for every n;
\* nothing collected before is enriched or returned.
C2_RetryFailureIsFatal ==
    mp.failed_page > 0 =>
        /\ pc = "done"
        /\ outcome.kind = "error"
        /\ Len(outcome.records) = 0
        /\ tasks = NoTasks
        /\ page_log[Len(page_log)].page = mp.failed_page
        /\ ~page_log[Len(page_log)].verify

\* the retry of the third page failed after two full pages were collected
C2_Witness ==
    /\ pc = "done"
    /\ mp.failed_page = 3
    /\ Len(mp.properties_data) = 2 * limit
    /\ outcome.kind = "error"

\* C3: an invocation of the entry point ends in a list, in a 400 error or in
\* a 502/503/504 error, and in nothing else.
C3_OnlyBoundaryErrors ==
    pc = "done" =>
        \/ outcome.kind = "list"
        \/ outcome.kind = "error" /\ outcome.exc = "HTTPException"
              /\ outcome.status \in {400, 502, 503, 504}

\* two strings that differ in the case of their letters at most
EqIgnoreCase(a, b) ==
    /\ Len(a) = Len(b)
    /\ \A i \in 1..Len(a) :
          \/ a[i] = b[i]
          \/ a[i] \in DOMAIN UpperToLower /\ UpperToLower[a[i]] = b[i]
          \/ b[i] \in DOMAIN UpperToLower /\ UpperToLower[b[i]] = a[i]

\* C4: get_scraper ignores letter case and is total: a source that spells a
\* registered key in any letter case gets a client of that key's class; any
\* other source, the empty string and None included, gets HTTPException(400)
\* and no client.
C4_GetScraperCaseInsensitiveTotal ==
    lookup.called =>
        LET keys == {k \in DOMAIN lookup.registry :
                        ~lookup.source.none /\ EqIgnoreCase(lookup.source.s, k)}
        IN  IF keys # {}
            THEN lookup.ok /\ \A k \in keys : lookup.cls = lookup.registry[k]
            ELSE ~lookup.ok /\ lookup.status = 400 /\ lookup.cls = "none"

\* a lookup with capital letters in the source resolved to a client
C4_Witness ==
    /\ lookup.called /\ lookup.ok
    /\ lookup.source.s \notin DOMAIN lookup.registry
    /\ lookup.cls = "MendozaPropScraper"

\* C5: when the httpx tactic raises, the browser tactic is called exactly
\* once before the call ends: nothing is returned or raised before it was
\* called, and it is not called again.
C5_BrowserTacticOnceAfterHttpxError ==
    inmoup.httpx = "raised" =>
        IF pc = "done"
        THEN inmoup.playwright_calls = 1
        ELSE inmoup.playwright_calls = 0 /\ outcome.kind = "none"

\* the httpx tactic raised and the call has ended after one browser run
C5_Witness ==
    /\ pc = "done"
    /\ inmoup.httpx = "raised"
    /\ inmoup.playwright_calls = 1
    /\ outcome.kind = "list" /\ Len(outcome.records) > 0

\* C6: when the httpx tactic raised and the browser tactic's navigation
\* failed, the caller gets the 503 error.
C6_NavigationFailureIs503 ==
    (pc = "done" /\ inmoup.httpx = "raised" /\ inmoup.playwright_step = "goto_failed") =>
        outcome.kind = "error" /\ outcome.status = 503

C8_OneLookupPerAddress ==
    \A i, j \in 1..Len(geocode_log) : geocode_log[i] = geocode_log[j] => i = j

\* every page request so far was answered 200 with a full page
AllFull ==
    \A i \in 1..Len(page_log) :
        page_log[i].result = "ok" /\ page_log[i].count = limit

\* C9: when every page request succeeds with exactly `limit` items the
\* walker makes exactly max_pages requests: it is still paginating before
\* the max_pages-th request and has stopped after it.
C9_FullPagesStopAtMaxPages ==
    (scraper = "MendozaPropScraper" /\ AllFull) =>
        /\ pc = "mp_loop" <=> Len(page_log) < max_pages
        /\ pc \in {"mp_tasks", "done"} <=> Len(page_log) = max_pages

\* five full pages were requested and the tasks are gathered
C9_Witness ==
    /\ scraper = "MendozaPropScraper" /\ AllFull
    /\ pc = "mp_tasks"
    /\ Len(page_log) = max_pages
    /\ Len(mp.properties_data) = max_pages * limit

\* a 200 answer with fewer items than the page size
ShortOk(e) == e.result = "ok" /\ e.count < limit

\* C10: the walker stops at the first page that has fewer than `limit` items:
\* no request follows such a page, and a walk of successful requests only
\* that ends before max_pages ends with such a page.
C10_StopsAtFirstShortPage ==
    /\ \A i \in 1..(Len(page_log) - 1) : ~ShortOk(page_log[i])
    /\ (Len(page_log) > 0 /\ ShortOk(page_log[Len(page_log)])) =>
          pc \in {"mp_tasks", "done"}
    /\ (Gathered /\ Len(page_log) < max_pages
           /\ \A i \in 1..Len(page_log) : page_log[i].result = "ok") =>
          ShortOk(page_log[Len(page_log)])

\* a full first page and a short second page: two requests
C10_Witness ==
    /\ Gathered
    /\ Len(page_log) = 2
    /\ page_log[1].result = "ok" /\ page_log[1].count = limit
    /\ ShortOk(page_log[2]) /\ page_log[2].count > 0

\* the flag of a record says that the listing has coordinates
IsTrueFlag(flag) == flag = PyBool(TRUE) \/ flag = PyStr(<<"true">>)

\* C11: in every record of either client, hasgeolocation is true exactly
\* when latitude and longitude are both non-empty strings.
C11_FlagIffBothCoordinates ==
    \A i \in 1..Len(ex.records) :
        IsTrueFlag(ex.records[i].hasgeolocation)
            <=> (ex.records[i].latitude # <<>> /\ ex.records[i].longitude # <<>>)

\* an image URL of a record: empty, or absolute
UrlOk(url) == url = <<>> \/ StartsWithHttp(url)

\* C12: in every record of either client, image and each element of
\* additional_images is empty or begins with http:// or https://.
C12_ImageUrlsAbsoluteOrEmpty ==
    \A i \in 1..Len(ex.records) :
        /\ UrlOk(ex.records[i].image)
        /\ \A k \in 1..Len(ex.records[i].additional_images) :
              UrlOk(ex.records[i].additional_images[k])

\* the site origin of a client
OriginOf(source) == IF source = "inmoup" THEN INMOUP_ORIGIN ELSE MP_ORIGIN

\* the URL begins with the origin
BeginsWith(url, origin) ==
    Len(url) >= Len(origin) /\ SubSeq(url, 1, Len(origin)) = origin

\* C13: in every record of either client, url is non-empty and begins with
\* the origin of the record's site.
C13_UrlBeginsWithOrigin ==
    \A i \in 1..Len(ex.records) :
        BeginsWith(ex.records[i].url, OriginOf(ex.records[i].source))

\* C14: in every record of either client, no element of additional_images
\* equals image.
C14_PrimaryNotAmongAdditional ==
    \A i \in 1..Len(ex.records) :
        \A k \in 1..Len(ex.records[i].additional_images) :
            ex.records[i].additional_images[k] # ex.records[i].image

\* C15: in every record of either client, additional_images has at most 10
\* elements.
C15_AtMostTenAdditional ==
    \A i \in 1..Len(ex.records) :
        Len(ex.records[i].additional_images) <= AdditionalCap

\* the records of the items at the positions in good, built by extract
RecordsAt(items, good, extract(_)) ==
    [k \in 1..Cardinality(good) |-> extract(SubSeqAt(items, good)[k]).rec]

\* C16: in each extraction loop of the Inmoup client (embedded JSON, HTML
\* cards, browser elements) an item whose extraction raises is the only one
\* skipped: the tactic returns the records of all other items of the loop,
\* in their order.
C16_RaisingItemAloneIsSkipped ==
    /\ ex.path = "inmoup_browser" =>
          ex.tactic = RecordsAt(ex.input,
                                {i \in 1..Len(ex.input) : ex.input[i].raises = "no"},
                                extract_element)
    /\ ex.path = "inmoup_httpx" =>
          LET items == ex.input.json.items
              jgood == {i \in 1..Len(items) : extract_json(items[i]).ok}
              cards == ex.input.cards
              cgood == {i \in 1..Len(cards) : extract_card(cards[i]).ok}
          IN  IF jgood # {}
              THEN ex.tactic = RecordsAt(items, jgood, extract_json)
              ELSE ex.tactic = RecordsAt(cards, cgood, extract_card)

\* the second of three JSON items raised and the first and the third came
\* back, in this order
C16_Witness ==
    /\ ex.path = "inmoup_httpx"
    /\ Len(ex.input.json.items) = 3
    /\ ~extract_json(ex.input.json.items[2]).ok
    /\ Len(ex.tactic) = 2
    /\ ex.tactic[1].kid = <<"1">> /\ ex.tactic[2].kid = <<"3">>

\* C17: a fetched Inmoup page without embedded JSON whose N cards all extract
\* without error gives exactly N records, each with source "inmoup" and a url
\* that begins with https://inmoup.com.ar.
C17_CardsPageGivesNRecords ==
    (/\ ex.path = "inmoup_httpx"
     /\ ex.input.json.t = "absent"
     /\ \A i \in 1..Len(ex.input.cards) : extract_card(ex.input.cards[i]).ok) =>
        /\ Len(ex.records) = Len(ex.input.cards)
        /\ \A i \in 1..Len(ex.records) :
              /\ ex.records[i].source = "inmoup"
              /\ BeginsWith(ex.records[i].url, INMOUP_ORIGIN)

\* C18: after register_scraper(name, cls), get_scraper resolves every
\* spelling of name that differs in letter case to cls, and every other
\* registered key maps to what it mapped to before; the last lookup made
\* with such a spelling got cls.
C18_RegistrationResolvesAndKeepsOthers ==
    last_reg.made =>
        /\ \A source \in LookupSources :
              (~source.none /\ EqIgnoreCase(source.s, last_reg.name)) =>
                  get_scraper(scrapers, source) =
                      [ok |-> TRUE, cls |-> last_reg.cls, status |-> 200]
        /\ \A k \in DOMAIN last_reg.before :
              ~EqIgnoreCase(k, last_reg.name) =>
                  k \in DOMAIN scrapers /\ scrapers[k] = last_reg.before[k]
        /\ \A k \in DOMAIN scrapers :
              k \in DOMAIN last_reg.before \/ EqIgnoreCase(k, last_reg.name)
        /\ (lookup.called /\ lookup.registry = scrapers
               /\ EqIgnoreCase(lookup.source.s, last_reg.name)) =>
              lookup.ok /\ lookup.cls = last_reg.cls

\* "ZonaProp" was registered and then looked up in capital letters
C18_Witness ==
    /\ last_reg.made
    /\ last_reg.name = <<"Z", "o", "n", "a", "P", "r", "o", "p">>
    /\ last_reg.cls = "MendozaPropScraper"
    /\ lookup.called /\ lookup.registry = scrapers
    /\ lookup.source = Str(Upper(K_zonaprop))
    /\ lookup.ok /\ lookup.cls = "MendozaPropScraper"

\* C19: every invocation gets a client of its own, whose geocode cache was
\* empty when it got it; what the cache of its client holds is what this
\* invocation stored, and every entry it found there it had stored itself.
C19_ClientAndCachePerInvocation ==
    \A c \in 1..Len(calls) :
        /\ \A d \in 1..Len(calls) : calls[c].ref = calls[d].ref => c = d
        /\ calls[c].first_seen = {}
        /\ DOMAIN instances[calls[c].ref].geocode_cache = calls[c].written
        /\ calls[c].hits \subseteq calls[c].written

\* two MendozaProp invocations: the first stored an address and found it
\* again, the second looked up the same address and stored it on its own
C19_Witness ==
    /\ Len(calls) >= 2
    /\ calls[1].cls = "MendozaPropScraper" /\ calls[2].cls = "MendozaPropScraper"
    /\ "San Martin 100" \in calls[1].hits
    /\ "San Martin 100" \in calls[2].written
    /\ calls[2].hits = {}

\* C20 as stated: a page request that timed out is retried once without
\* certificate verification, like a request that failed otherwise.
C20_TimeoutIsRetried ==
    \A i \in 1..Len(page_log) :
        (page_log[i].verify /\ page_log[i].result = "timeout") =>
            IF i = Len(page_log) THEN pc = "mp_retry"
            ELSE ~page_log[i + 1].verify /\ page_log[i + 1].page = page_log[i].page

\* C20 amended: a failed page request is retried once without certificate
\* verification unless it timed out; a timeout is the last request of the
\* walk, which ends without an error and keeps the pages collected before.
C20_TimeoutEndsPagination ==
    \A i \in 1..Len(page_log) :
        /\ (page_log[i].verify /\ page_log[i].result \in {"status", "error"}) =>
              IF i = Len(page_log) THEN pc = "mp_retry"
              ELSE ~page_log[i + 1].verify /\ page_log[i + 1].page = page_log[i].page
        /\ (page_log[i].verify /\ page_log[i].result = "timeout") =>
              /\ i = Len(page_log)
              /\ pc \in {"mp_tasks", "done"}
              /\ mp.failed_page = 0
              /\ Len(mp.properties_data) = page_log[i].offset
              /\ pc = "done" => outcome.kind = "list"

\* the request for the second page timed out and the records of the first
\* page were returned
C20_Witness ==
    /\ pc = "done"
    /\ Len(page_log) = 2
    /\ page_log[2].verify /\ page_log[2].result = "timeout"
    /\ outcome.kind = "list" /\ Len(outcome.records) > 0

\* the retry of a logged request: the same page at the same offset, without
\* certificate verification
IsRetryOf(r, e) == ~r.verify /\ r.page = e.page /\ r.offset = e.offset

\* C21: a page request that failed with a non-200 status or a transport
\* exception is retried exactly once, for the same page and offset, without
\* certificate verification; the items of a successful retry are appended as
\* that page and the walk goes on with the next page under the usual rules
\* (it ends after a short page and after page max_pages).
C21_RetrySamePageOnceThenContinue ==
    \A i \in 1..Len(page_log) :
        /\ (page_log[i].verify /\ page_log[i].result \in {"status", "error"}) =>
              IF i = Len(page_log)
              THEN /\ pc = "mp_retry"
                   /\ \A k \in 1..Len(mp.in_flight) : IsRetryOf(mp.in_flight[k], page_log[i])
              ELSE IsRetryOf(page_log[i + 1], page_log[i])
        /\ ~page_log[i].verify =>
              /\ i > 1
              /\ page_log[i - 1].verify
              /\ page_log[i - 1].result \in {"status", "error"}
              /\ IsRetryOf(page_log[i], page_log[i - 1])
        /\ (~page_log[i].verify /\ page_log[i].result = "ok") =>
              IF i = Len(page_log)
              THEN /\ Len(mp.properties_data) = page_log[i].offset + page_log[i].count
                   /\ \A k \in 1..page_log[i].count :
                         mp.properties_data[page_log[i].offset + k].id = page_log[i].offset + k
                   /\ pc # "mp_retry"
                   /\ pc = "mp_loop" <=>
                         (page_log[i].count = limit /\ page_log[i].page < max_pages)
              ELSE /\ page_log[i].count = limit
                   /\ page_log[i].page < max_pages
                   /\ page_log[i + 1].verify
                   /\ page_log[i + 1].page = page_log[i].page + 1
                   /\ page_log[i + 1].offset = page_log[i].offset + page_log[i].count

\* the second page failed, its retry brought a full page and the third page
\* was requested at offset 2 * limit
C21_Witness ==
    /\ Len(page_log) >= 4
    /\ page_log[2].verify /\ page_log[2].result \in {"status", "error"}
    /\ ~page_log[3].verify /\ page_log[3].result = "ok" /\ page_log[3].page = 2
    /\ page_log[4].page = 3 /\ page_log[4].offset = 2 * limit
    /\ Len(mp.properties_data) >= 2 * limit

\* the answered requests for a page, in the order of their answers
AnswersFor(page) == {i \in 1..Len(page_log) : page_log[i].page = page}

\* the request for a page, its retry included, has completed: it was answered
\* and its last answer does not lead to a retry
Completed(page) ==
    /\ AnswersFor(page) # {}
    /\ \A i \in AnswersFor(page) :
          (page_log[i].verify /\ page_log[i].result \in {"status", "error"}) =>
              i + 1 \in AnswersFor(page)

\* C22: the page requests are sequential.  At most one request is in flight;
\* when a request for page n is in flight, every earlier page has completed
\* (its retry included) and no later page was requested; a retry is in flight
\* only after the failed answer of the same page; the answers are logged in
\* page order.
C22_OneRequestInFlight ==
    /\ Len(mp.in_flight) <= 1
    /\ \A k \in 1..Len(mp.in_flight) :
          /\ mp.in_flight[k].page = mp.page_count
          /\ \A p \in 1..(mp.in_flight[k].page - 1) : Completed(p)
          /\ \A i \in 1..Len(page_log) : page_log[i].page <= mp.in_flight[k].page
          /\ mp.in_flight[k].verify => AnswersFor(mp.in_flight[k].page) = {}
          /\ ~mp.in_flight[k].verify =>
                /\ AnswersFor(mp.in_flight[k].page) = {Len(page_log)}
                /\ page_log[Len(page_log)].verify
                /\ page_log[Len(page_log)].result \in {"status", "error"}
    /\ \A i \in 1..Len(page_log) : \A j \in i..Len(page_log) :
          page_log[i].page <= page_log[j].page
    /\ \A i \in 1..Len(page_log) :
          \A p \in 1..(page_log[i].page - 1) : Completed(p)

\* the retry of the second page is in flight, after the first page completed
C22_Witness ==
    /\ Len(mp.in_flight) = 1
    /\ mp.in_flight[1].page = 2
    /\ ~mp.in_flight[1].verify
    /\ Len(page_log) = 2

\* the items received in the answered requests before position i of page_log
RECURSIVE ReceivedBefore(_)
ReceivedBefore(i) ==
    IF i <= 1 THEN 0
    ELSE ReceivedBefore(i - 1)
         + (IF page_log[i - 1].result = "ok" THEN page_log[i - 1].count ELSE 0)

\* C23: the offset of every page request equals the number of raw items
\* collected before it: it starts at 0 and advances by the number of items
\* received (not by the page size), so the items collected are exactly the
\* items 1..offset of the listing, each once and in order.
C23_OffsetIsItemsCollected ==
    /\ mp.offset = Len(mp.properties_data)
    /\ \A k \in 1..Len(mp.properties_data) : mp.properties_data[k].id = k
    /\ \A k \in 1..Len(mp.in_flight) :
          mp.in_flight[k].offset = Len(mp.properties_data)
    /\ \A i \in 1..Len(page_log) :
          /\ page_log[i].offset = ReceivedBefore(i)
          /\ i = 1 => page_log[i].offset = 0
    /\ mp.offset = ReceivedBefore(Len(page_log) + 1)

\* the second page was requested at offset limit and its two items left the
\* offset at limit + 2
C23_Witness ==
    /\ Len(page_log) = 2
    /\ page_log[2].offset = limit
    /\ page_log[2].result = "ok" /\ page_log[2].count = 2
    /\ mp.offset = limit + 2

\* a failure of the httpx tactic is transport-level: a status outside 2xx, a
\* network failure or a timeout
TransportLevel(exc, answer) ==
    \/ exc \in {OtherError("httpx.ConnectError"), OtherError("httpx.TimeoutException")}
    \/ exc = HTTPException(503) /\ answer \notin 200..299

\* C24 as stated: the browser tactic is invoked only after the httpx tactic
\* raised a transport-level error.
C24_BrowserOnlyOnTransportError ==
    (pc = "inmoup_playwright" \/ inmoup.playwright_calls > 0) =>
        /\ inmoup.httpx = "raised"
        /\ TransportLevel(inmoup.httpx_exc, inmoup.httpx_answer)

\* C24 amended: the browser tactic is invoked exactly when the httpx tactic
\* raised, whatever the exception (a transport failure, a 2xx status other
\* than 200, an error while reading the page); it is never invoked when the
\* httpx tactic returned a list.
C24_BrowserExactlyWhenHttpxRaised ==
    /\ (pc = "inmoup_playwright" \/ inmoup.playwright_calls > 0) =>
          inmoup.httpx = "raised" /\ inmoup.httpx_exc \in HttpxErrors
    /\ inmoup.httpx = "returned" =>
          inmoup.playwright_calls = 0 /\ pc # "inmoup_playwright"
    /\ \A f \in HttpxFailures :
          (pc = "done" /\ inmoup.httpx = "raised" /\ inmoup.httpx_exc = f.exc) =>
              inmoup.playwright_calls = 1

\* json.loads raised RecursionError on a page answered 200 and the browser
\* tactic ran
C24_Witness ==
    /\ pc = "done"
    /\ inmoup.httpx = "raised"
    /\ inmoup.httpx_exc = OtherError("RecursionError")
    /\ inmoup.httpx_answer = 200
    /\ inmoup.playwright_calls = 1

\* the records are non-empty and all of them have the placeholder image
AllPlaceholders(records) == Len(records) > 0 /\ missing_images(records)

\* C25 as stated: the enhancement pass is attempted before the result is
\* returned whenever the records of the httpx tactic or of the browser tactic
\* are non-empty and all have the placeholder image, and is not attempted
\* when a record has a real image.
C25_EnhancementAfterEitherTactic ==
    pc = "done" =>
        /\ (inmoup.httpx = "returned" /\ AllPlaceholders(inmoup.buildings)) =>
              inmoup.enhance_calls >= 1
        /\ (inmoup.httpx = "raised" /\ outcome.kind = "list"
              /\ AllPlaceholders(outcome.records)) =>
              inmoup.enhance_calls >= 1
        /\ (inmoup.httpx = "returned" /\ ~AllPlaceholders(inmoup.buildings)) =>
              inmoup.enhance_calls = 0

\* C25 amended: the enhancement pass follows the httpx tactic only.  It is
\* attempted, once and before the result is returned, exactly when the httpx
\* tactic returned a non-empty list whose records all have the placeholder
\* image; the records of the browser tactic are returned as they are.
C25_EnhancementAfterHttpxOnly ==
    /\ inmoup.enhance_calls <= 1
    /\ inmoup.httpx = "raised" => inmoup.enhance_calls = 0 /\ pc # "inmoup_enhance"
    /\ pc = "inmoup_enhance" =>
          inmoup.httpx = "returned" /\ AllPlaceholders(inmoup.buildings)
    /\ pc = "done" =>
          (inmoup.enhance_calls = 1 <=>
              (inmoup.httpx = "returned" /\ AllPlaceholders(inmoup.buildings)))
    /\ (inmoup.httpx = "returned" /\ AllPlaceholders(inmoup.buildings)
          /\ inmoup.enhance_calls = 0) => outcome.kind = "none"

\* the httpx tactic returned two records with the placeholder image and the
\* enhancement pass ran before the result was returned
C25_Witness ==
    /\ pc = "done"
    /\ inmoup.httpx = "returned"
    /\ Len(inmoup.buildings) = 2
    /\ AllPlaceholders(inmoup.buildings)
    /\ inmoup.enhance_calls = 1
    /\ outcome.kind = "list"

\* the fields of a record the enhancement pass may not change
FrameFields(record) == DOMAIN record \ {"image", "additional_images"}

\* the enhancement pass ran over the records of the fetched page and did not fail
EnhancementSucceeded ==
    /\ ex.path = "inmoup_httpx"
    /\ AllPlaceholders(ex.tactic)
    /\ ex.fail = "none"

\* C26: a successful enhancement pass returns the records of the httpx
\* tactic in the same number and order; every field other than image and
\* additional_images is unchanged in every record, and a record whose kid
\* is not in the harvested image map is unchanged in every field.
C26_EnhancementChangesImagesOnly ==
    EnhancementSucceeded =>
        /\ Len(ex.records) = Len(ex.tactic)
        /\ \A i \in 1..Len(ex.tactic) :
              /\ i <= Len(ex.records)
              /\ DOMAIN ex.records[i] = DOMAIN ex.tactic[i]
              /\ \A f \in FrameFields(ex.tactic[i]) : ex.records[i][f] = ex.tactic[i][f]
              /\ ex.tactic[i].kid \notin DOMAIN harvest(ex.elements, NoImages) =>
                    ex.records[i] = ex.tactic[i]

\* two records with the placeholder image: the first got a harvested image,
\* the second was not harvested and is unchanged
C26_Witness ==
    /\ EnhancementSucceeded
    /\ Len(ex.tactic) = 2
    /\ Len(ex.records) = 2
    /\ ex.records[1].image # ex.tactic[1].image
    /\ ex.tactic[2].kid \notin DOMAIN harvest(ex.elements, NoImages)
    /\ ex.records[2] = ex.tactic[2]

\* the records the embedded array of a fetched page yields
ArrayRecords(page) ==
    RecordsAt(page.json.items,
              {i \in 1..Len(page.json.items) : extract_json(page.json.items[i]).ok},
              extract_json)

\* the records the cards of a fetched page yield
CardRecords(page) ==
    RecordsAt(page.cards, {i \in 1..Len(page.cards) : extract_card(page.cards[i]).ok},
              extract_card)

\* C27: the httpx tactic prefers the embedded array.  When the array is
\* parsable and yields at least one record, the result is the records of the
\* array and nothing of the cards; when the array is absent, unparsable,
\* empty or yields no record, the result is the records of the cards.
C27_EmbeddedArrayPreferred ==
    ex.path = "inmoup_httpx" =>
        /\ (ex.input.json.t = "list" /\ Len(ArrayRecords(ex.input)) > 0) =>
              /\ ex.tactic = ArrayRecords(ex.input)
              /\ Len(ex.tactic) <= Len(ex.input.json.items)
        /\ (\/ ex.input.json.t \in {"absent", "invalid"}
            \/ Len(ex.input.json.items) = 0
            \/ Len(ArrayRecords(ex.input)) = 0) =>
              ex.tactic = CardRecords(ex.input)

\* a page with an embedded array of two items, one of which yields a record,
\* and a card: the result is the record of the array and not the card's
C27_Witness ==
    /\ ex.path = "inmoup_httpx"
    /\ ex.input.json.t = "list"
    /\ Len(ex.input.json.items) = 2
    /\ Len(ex.input.cards) = 1
    /\ Len(CardRecords(ex.input)) = 1
    /\ Len(ex.tactic) = 1
    /\ ex.tactic[1] # CardRecords(ex.input)[1]

\* C28: on the same page content the browser tactic returns the records the
\* httpx tactic returns, taking them from the embedded array first and from
\* the cards only when the array gives none.
C28_BrowserSameRecordsAsHttpx ==
    ex.path = "inmoup_both" => ex.records = ex.tactic

\* the coordinate pair a raw item carries in each shape, in the order flat
\* fields, map, coords, location (an empty pair where the shape is absent)
ShapePairs(prop) ==
    <<[latitude |-> extract_value(<<prop.latitude, prop.google_lat>>),
       longitude |-> extract_value(<<prop.longitude, prop.google_lng>>)],
      [latitude |-> Get(prop.map.latitude, EmptyStr),
       longitude |-> Get(prop.map.longitude, EmptyStr)],
      [latitude |-> Get(prop.coords.lat, EmptyStr),
       longitude |-> Get(prop.coords.lng, EmptyStr)],
      [latitude |-> Or(Get(prop.location.latitude, EmptyStr),
                       Get(prop.location.lat, EmptyStr)),
       longitude |-> Or(Get(prop.location.longitude, EmptyStr),
                        Get(prop.location.lng, EmptyStr))]>>

\* both coordinates of the pair are non-empty
CompletePair(pair) == Truthy(pair.latitude) /\ Truthy(pair.longitude)

\* C29: when the record of a raw item has both coordinates and they were not
\* geocoded, they are the latitude and the longitude of one shape of the
\* item, the first one in the order flat fields, map, coords, location in
\* which both are non-empty.
C29_CoordinatesFromOneShape ==
    (/\ ex.path = "mendozaprop"
     /\ Len(ex.records) = 1
     /\ ~NeedsGeocoding(ex.input)
     /\ ex.records[1].hasgeolocation = PyBool(TRUE)) =>
        \E k \in 1..4 :
            /\ CompletePair(ShapePairs(ex.input)[k])
            /\ \A j \in 1..(k - 1) : ~CompletePair(ShapePairs(ex.input)[j])
            /\ ex.records[1].latitude = ToStr(ShapePairs(ex.input)[k].latitude)
            /\ ex.records[1].longitude = ToStr(ShapePairs(ex.input)[k].longitude)

\* task i starts in the step
TaskStarts(i) == tasks.state[i] = "new" /\ tasks'.state[i] # "new"

\* task i issues its lookup in the step
TaskLooksUp(i) == tasks.state[i] = "new" /\ tasks'.state[i] = "waiting"

\* the lookup of task i returns in the step
LookupReturns(i) == tasks.state[i] = "waiting" /\ tasks'.state[i] = "done"

\* C30 for one step of the enrichment tasks
CacheDiscipline ==
    tasks'.n = tasks.n =>
        /\ \A i \in 1..tasks.n :
              LET item == mp.properties_data[i] IN
              /\ (TaskStarts(i) /\ ConsultsCache(item)
                    /\ item.address \in DOMAIN geocode_cache) =>
                    /\ tasks'.state[i] = "done"
                    /\ geocode_log' = geocode_log
                    /\ tasks'.result[i] = BuildRecord(item, geocode_cache[item.address][1],
                                                      geocode_cache[item.address][2])
              /\ TaskLooksUp(i) =>
                    /\ item.address # ""
                    /\ item.latitude = "" \/ item.longitude = ""
                    /\ item.address \notin DOMAIN geocode_cache
                    /\ geocode_log' = Append(geocode_log, item.address)
              /\ LookupReturns(i) =>
                    \E pair \in GeocodeResults(item.address) :
                       /\ tasks'.result[i] = BuildRecord(item, pair[1], pair[2])
                       /\ IF pair[1] # "" /\ pair[2] # ""
                          THEN /\ item.address \in DOMAIN geocode_cache'
                               /\ geocode_cache'[item.address] = pair
                          ELSE geocode_cache' = geocode_cache
        /\ geocode_log' # geocode_log => \E i \in 1..tasks.n : TaskLooksUp(i)
        /\ geocode_cache' # geocode_cache => \E i \in 1..tasks.n : LookupReturns(i)

\* C30: a task looks into the geocode cache before any lookup.  A task whose
\* address is in the cache issues no lookup and builds its record from the
\* cached pair; a lookup is issued only by a task whose item lacks a
\* coordinate, has a non-empty address that is not in the cache; a lookup
\* that returns two non-empty coordinates writes them into the cache under
\* the address, and nothing else changes the cache.
C30_CacheBeforeLookup == [][CacheDiscipline]_vars

\* two items with the same address and no coordinates: the first was looked
\* up once and cached, the second got the cached pair without a lookup
C30_Witness ==
    /\ pc = "mp_tasks"
    /\ tasks.n = 2
    /\ tasks.state = <<"done", "done">>
    /\ mp.properties_data[1].address = mp.properties_data[2].address
    /\ ConsultsCache(mp.properties_data[1])
    /\ geocode_log = <<mp.properties_data[1].address>>
    /\ mp.properties_data[1].address \in DOMAIN geocode_cache
    /\ tasks.result[2].ok
    /\ tasks.result[2].latitude = geocode_cache[mp.properties_data[2].address][1]
    /\ tasks.result[2].longitude = geocode_cache[mp.properties_data[2].address][2]

\* a step keeps every entry of the geocode cache, with its value
CacheEntriesKept ==
    \A a \in DOMAIN geocode_cache :
        a \in DOMAIN geocode_cache' /\ geocode_cache'[a] = geocode_cache[a]

\* the finished tasks whose record got both coordinates from the geocoding
\* branch (from a lookup or from the cache)
ResolvedByGeocoding ==
    {i \in 1..tasks.n :
        /\ tasks.state[i] = "done"
        /\ ConsultsCache(mp.properties_data[i])
        /\ tasks.result[i].ok
        /\ tasks.result[i].hasgeolocation}

\* records of one address resolved by geocoding carry the coordinates cached
\* for the address
ResolvedRecordsAgree ==
    \A i \in ResolvedByGeocoding :
        /\ mp.properties_data[i].address \in DOMAIN geocode_cache
        /\ <<tasks.result[i].latitude, tasks.result[i].longitude>>
              = geocode_cache[mp.properties_data[i].address]
        /\ \A j \in ResolvedByGeocoding :
              mp.properties_data[j].address = mp.properties_data[i].address =>
                  /\ tasks.result[j].latitude = tasks.result[i].latitude
                  /\ tasks.result[j].longitude = tasks.result[i].longitude

C32_BrowsersTornDown ==
    /\ inmoup.browsers_running = 0
    /\ pc = "done" =>
          /\ inmoup.browsers_launched <= inmoup.playwright_calls + inmoup.enhance_calls
          /\ inmoup.playwright_step \in {"goto_failed", "query_failed", "ok", "close_failed"} =>
                inmoup.browsers_launched = 1
          /\ (inmoup.enhance_calls = 1 /\ inmoup.enhance_fail # "launch") =>
                inmoup.browsers_launched = 1

\* the navigation of the browser tactic failed after the browser was
\* launched; the call raised and no browser is left running
C32_Witness ==
    /\ pc = "done"
    /\ inmoup.playwright_step = "goto_failed"
    /\ inmoup.browsers_launched = 1
    /\ inmoup.browsers_running = 0
    /\ outcome.kind = "error"

\* the value has the word in some spelling of upper and lower case
HasWord(value, word) ==
    ~value.none /\ \E v \in CaseVariants(word) : Contains(value.s, v)

\* C33: the property-type filter is a fixed mapping of the request's
\* property_type: a value containing "depart" in any letter case gives the
\* single code "3", whether or not it also contains "casa"; a value
\* containing "casa" and not "depart" gives the single code "1"; None, the
\* empty string and every other value give the default list of codes.
C33_PropertyTypeMapping ==
    query.built =>
        LET value == query.request.property_type IN
        /\ HasWord(value, W_depart) => query.property_type = <<"3">>
        /\ (HasWord(value, W_casa) /\ ~HasWord(value, W_depart)) =>
              query.property_type = <<"1">>
        /\ (~HasWord(value, W_casa) /\ ~HasWord(value, W_depart)) =>
              query.property_type = DefaultPropertyTypes
        /\ query.request.none => query.property_type = DefaultPropertyTypes

\* "CASA y Departamento" has both words and selects the apartment code
C33_Witness ==
    /\ query.built
    /\ query.request.property_type = Str(Upper(W_casa) \o W_y \o Capitalized(W_depart) \o W_amento)
    /\ query.property_type = <<"3">>

\* the first request for a page timed out
TimedOutAt(i) == page_log[i].verify /\ page_log[i].result = "timeout"

\* C34: a timeout of the request for page n ends pagination without a retry
\* and without an error: no further request is made, one enrichment task is
\* created for each item of pages 1..n-1, and the call returns the records
\* of those tasks that succeeded, in order; when page 1 timed out it returns
\* the empty list.
C34_TimeoutReturnsEarlierPages ==
    \A i \in 1..Len(page_log) :
        TimedOutAt(i) =>
            /\ i = Len(page_log)
            /\ Len(mp.in_flight) = 0
            /\ pc \notin {"mp_loop", "mp_retry"}
            /\ page_log[i].offset = ReceivedBefore(i)
            /\ Len(mp.properties_data) = ReceivedBefore(i)
            /\ tasks.n = Len(mp.properties_data)
            /\ pc = "done" =>
                  /\ outcome.kind = "list"
                  /\ outcome.records = Collect(tasks.result)
                  /\ \A k \in 1..tasks.n : tasks.state[k] = "done"
                  /\ page_log[i].page = 1 => outcome.records = <<>>

\* the request for the first page timed out and the call returned the empty
\* list
C34_Witness ==
    /\ pc = "done"
    /\ Len(page_log) = 1
    /\ TimedOutAt(1)
    /\ outcome.kind = "list"
    /\ outcome.records = <<>>

\* C35: one invocation of InmoupScraper.get_buildings launches at most one
\* browser: the browser tactic and the enhancement pass never both run, and
\* neither runs (no browser is launched) when the httpx tactic returned an
\* empty list or a list with at least one real primary image.
C35_AtMostOneBrowser ==
    /\ inmoup.browsers_launched <= 1
    /\ inmoup.playwright_calls + inmoup.enhance_calls <= 1
    /\ (inmoup.httpx = "returned" /\ ~AllPlaceholders(inmoup.buildings)) =>
          /\ inmoup.browsers_launched = 0
          /\ inmoup.playwright_calls = 0
          /\ inmoup.enhance_calls = 0
          /\ pc \notin {"inmoup_enhance", "inmoup_playwright"}
    /\ pc = "inmoup_enhance" => inmoup.playwright_calls = 0
    /\ pc = "inmoup_playwright" => inmoup.enhance_calls = 0

\* the httpx tactic returned two records, one with a real image, and the
\* call ended without a browser
C35_Witness ==
    /\ pc = "done"
    /\ inmoup.httpx = "returned"
    /\ Len(inmoup.buildings) = 2
    /\ ~missing_images(inmoup.buildings)
    /\ inmoup.browsers_launched = 0
    /\ outcome.kind = "list"

\* C36: the list MendozaPropScraper.get_buildings returns is the sequence of
\* the raw items, in the order they were collected, restricted to the items
\* whose task succeeded: the records follow the order of their raw items
\* whatever the order in which the suspended tasks resumed, every record
\* belongs to a task that succeeded, every such task has its record, and
\* the list is not longer than the raw items.
C36_ResultInCollectionOrder ==
    (pc = "done" /\ scraper = "MendozaPropScraper" /\ outcome.kind = "list") =>
        /\ Len(outcome.records) <= Len(mp.properties_data)
        /\ Len(outcome.records) = Cardinality({i \in 1..tasks.n : tasks.result[i].ok})
        /\ \A k \in 1..Len(outcome.records) :
              /\ outcome.records[k].id \in 1..tasks.n
              /\ mp.properties_data[outcome.records[k].id].id = outcome.records[k].id
              /\ outcome.records[k] = tasks.result[outcome.records[k].id]
              /\ k < Len(outcome.records) =>
                    outcome.records[k].id < outcome.records[k + 1].id

\* the lookup of the second item returned before the lookup of the first
\* and the list has the first item's record first
C36_Witness ==
    /\ pc = "done"
    /\ outcome.kind = "list"
    /\ tasks.resumed = <<2, 1>>
    /\ Len(outcome.records) = 2
    /\ outcome.records[1].id = 1
    /\ outcome.records[2].id = 2

\* task i was suspended in a lookup that found nothing (it failed, timed
\* out, was not answered 200 or had no result) and has ended
FailedLookup(i) ==
    /\ i \in {tasks.resumed[k] : k \in 1..Len(tasks.resumed)}
    /\ tasks.result[i].ok
    /\ tasks.result[i].latitude = "" /\ tasks.result[i].longitude = ""

\* the step in which a lookup returns ("", "") leaves the cache as it is and
\* ends the task with a record without coordinates; a task that starts
\* while its address is not cached issues a lookup
FailedLookupStep ==
    tasks'.n = tasks.n =>
        \A i \in 1..tasks.n :
            /\ (LookupReturns(i) /\ tasks'.result[i].ok
                  /\ tasks'.result[i].latitude = "" /\ tasks'.result[i].longitude = "") =>
                  /\ geocode_cache' = geocode_cache
                  /\ ~tasks'.result[i].hasgeolocation
            /\ LookupReturns(i) => tasks'.result[i].ok
            /\ (TaskStarts(i) /\ ConsultsCache(mp.properties_data[i])
                  /\ mp.properties_data[i].address \notin DOMAIN geocode_cache) =>
                  /\ TaskLooksUp(i)
                  /\ geocode_log' = Append(geocode_log, mp.properties_data[i].address)

\* the record of a task whose lookup found nothing is in the returned list
FailedLookupRecordReturned ==
    (pc = "done" /\ scraper = "MendozaPropScraper" /\ outcome.kind = "list") =>
        \A k \in 1..Len(tasks.resumed) :
            FailedLookup(tasks.resumed[k]) =>
                \E r \in 1..Len(outcome.records) :
                    /\ outcome.records[r] = tasks.result[tasks.resumed[k]]
                    /\ outcome.records[r].latitude = ""
                    /\ outcome.records[r].longitude = ""
                    /\ ~outcome.records[r].hasgeolocation

\* C37: a geocoding lookup that finds nothing does not fail the record and
\* writes nothing into the cache: the record is returned with empty latitude
\* and longitude and hasgeolocation false, and a task with the same address
\* that starts while the address is not cached issues a new lookup.
C37_FailedLookupKeepsRecord == [][FailedLookupStep]_vars /\ []FailedLookupRecordReturned

\* two items with the same address: both lookups found nothing, nothing
\* was cached and both records were returned without coordinates
C37_Witness ==
    /\ pc = "done"
    /\ outcome.kind = "list"
    /\ Len(geocode_log) = 2
    /\ geocode_log[1] = geocode_log[2]
    /\ DOMAIN geocode_cache = {}
    /\ Len(tasks.resumed) = 2
    /\ FailedLookup(1) /\ FailedLookup(2)
    /\ Len(outcome.records) = 2

\* the requests of one client that were forwarded with a time in (t - window_seconds, t]
ForwardedInWindow(client_ip, t) ==
    {k \in 1..Len(dispatch_log) :
        /\ dispatch_log[k].client_ip = client_ip
        /\ dispatch_log[k].forwarded
        /\ dispatch_log[k].time > t - window_seconds
        /\ dispatch_log[k].time <= t}

\* the requests of one client forwarded before request k and still inside
\* the window that ends at the time of request k
ForwardedBefore(k) ==
    {j \in 1..(k - 1) :
        /\ dispatch_log[j].client_ip = dispatch_log[k].client_ip
        /\ dispatch_log[j].forwarded
        /\ dispatch_log[j].time > dispatch_log[k].time - window_seconds}

\* C38: for every client IP at most max_requests of its requests are
\* forwarded within any window of window_seconds; a request is rejected
\* exactly when max_requests forwarded requests of the same IP lie in the
\* window that ends at it, so rejected requests and the requests of other
\* IPs never count against a client.
C38_RateLimitPerClient ==
    /\ \A client_ip \in ClientIPs : \A t \in 0..MaxTime :
          Cardinality(ForwardedInWindow(client_ip, t)) <= max_requests
    /\ \A k \in 1..Len(dispatch_log) :
          dispatch_log[k].forwarded <=> Cardinality(ForwardedBefore(k)) < max_requests
    /\ \A client_ip \in ClientIPs :
          Len(request_counts[client_ip]) <=
              Cardinality({k \in 1..Len(dispatch_log) :
                              dispatch_log[k].client_ip = client_ip /\ dispatch_log[k].forwarded})

\* a client was rejected inside the window of its first requests, another
\* client was forwarded after that, and the first client was forwarded again
\* as soon as the window of its first requests had passed
C38_Witness ==
    /\ Len(dispatch_log) = 5
    /\ dispatch_log[1] = Forwarded("10.0.0.1", 0)
    /\ dispatch_log[2] = Forwarded("10.0.0.1", 0)
    /\ dispatch_log[3] = Rejected("10.0.0.1", 1)
    /\ dispatch_log[4] = Forwarded("10.0.0.2", 1)
    /\ dispatch_log[5] = Forwarded("10.0.0.1", 2)

\* the last login presented a token the endpoint had issued, before the
\* expiry generate_csrf_token gave it, from an origin that is allowed
PresentedIssuedToken ==
    /\ csrf_login.done
    /\ csrf_login.issued
    /\ csrf_login.at <= csrf_issued[csrf_login.token].expires_at
    /\ OriginAllowed(csrf_env, csrf_login.origin)

\* C39: every entry of the csrf_tokens store carries an expiry time, and a
\* token issued by GET /auth/csrf-token that is presented to the login
\* endpoint before its expiry passes the CSRF verification without error.
C39_IssuedTokenVerifies ==
    /\ \A token \in DOMAIN csrf_tokens : csrf_tokens[token].t = "dict"
    /\ PresentedIssuedToken => csrf_login.result = "True"

\* the second half of C39 alone: the issued token, presented in time, passes
IssuedTokenPasses == PresentedIssuedToken => csrf_login.result = "True"

\* whenever verification is enabled, the issued token presented in time
\* ends the login in an AttributeError
IssuedTokenRaises ==
    (PresentedIssuedToken /\ csrf_env.CSRF_ENABLED) => csrf_login.result = "AttributeError"

====
